---- MODULE Spec2Model ----
(***************************************************************************)
(* FoodieSpot reservations: the JSON data store, the availability engine,  *)
(* the reservation service (make / update / cancel), and the turn of a     *)
(* conversation: the conversation manager with its language model gateway, *)
(* the tool dispatchers, the catalog tools, the query and tool validators, *)
(* and two processes booking at the same time.                             *)
(*                                                                         *)
(* Python strings that the code parses (dates, clock times) are sequences  *)
(* of one-character strings, so that split(), int(), strptime() and the    *)
(* f"{h:02d}:{m:02d}" formatting are computed and not assumed.             *)
(* Strings the code only stores or compares (ids of restaurants, names,    *)
(* e-mail addresses, status, messages) are TLA+ strings.                   *)
(***************************************************************************)
EXTENDS Integers, Sequences, FiniteSets, TLC

(***************************************************************************)
(* Bounds of the model.                                                    *)
(***************************************************************************)
\* the wall clock (in seconds) runs from 0 to MaxClock
MaxClock == 1
\* an llm_service gives at most MaxToolCalls tool calls in one response
MaxToolCalls == 2

(***************************************************************************)
(* Python string primitives.                                               *)
(***************************************************************************)
DigitChars == <<"0", "1", "2", "3", "4", "5", "6", "7", "8", "9">>

IsDigit(c) == \E i \in 1..10 : DigitChars[i] = c

DigitVal(c) == (CHOOSE i \in 1..10 : DigitChars[i] = c) - 1

AllDigits(s) == \A i \in 1..Len(s) : IsDigit(s[i])

RECURSIVE DecVal(_)
\* value of a non-empty run of decimal digits
DecVal(s) ==
    IF Len(s) = 0 THEN 0
    ELSE 10 * DecVal(SubSeq(s, 1, Len(s) - 1)) + DigitVal(s[Len(s)])

RECURSIVE split(_, _)
\* str.split(sep) with a one-character separator
split(s, sep) ==
    IF \E i \in 1..Len(s) : s[i] = sep
    THEN LET i == CHOOSE k \in 1..Len(s) :
                    s[k] = sep /\ \A j \in 1..(k - 1) : s[j] # sep
         IN  <<SubSeq(s, 1, i - 1)>> \o split(SubSeq(s, i + 1, Len(s)), sep)
    ELSE <<s>>

RECURSIVE strip(_)
\* str.strip() for the blank character
strip(s) ==
    IF Len(s) > 0 /\ s[1] = " " THEN strip(Tail(s))
    ELSE IF Len(s) > 0 /\ s[Len(s)] = " " THEN strip(SubSeq(s, 1, Len(s) - 1))
    ELSE s

\* the digits of int(s)'s argument once blanks and one sign are removed
IntBody(s) ==
    LET t == strip(s)
    IN  IF Len(t) > 0 /\ t[1] \in {"+", "-"} THEN Tail(t) ELSE t

\* int(s) does not raise ValueError
IntOk(s) == Len(IntBody(s)) > 0 /\ AllDigits(IntBody(s))

\* int(s), for IntOk(s)
int(s) ==
    LET t == strip(s)
    IN  IF Len(t) > 0 /\ t[1] = "-" THEN 0 - DecVal(IntBody(s))
        ELSE DecVal(IntBody(s))

RECURSIVE Decimal(_)
\* str(n) for n >= 0
Decimal(n) ==
    IF n < 10 THEN <<DigitChars[n + 1]>>
    ELSE Decimal(n \div 10) \o <<DigitChars[(n % 10) + 1]>>

\* f"{n:02d}" for n >= 0
Format02d(n) == IF n < 10 THEN <<"0">> \o Decimal(n) ELSE Decimal(n)

\* f"{h:02d}:{m:02d}"
FormatSlot(h, m) == Format02d(h) \o <<":">> \o Format02d(m)

InSeq(x, s) == \E i \in 1..Len(s) : s[i] = x

(***************************************************************************)
(* datetime.strptime(date, "%Y-%m-%d") and date.weekday().                 *)
(***************************************************************************)
\* %Y : exactly four digits
YearText(s) == Len(s) = 4 /\ AllDigits(s)

\* %m : 1[0-2] | 0[1-9] | [1-9]
MonthText(s) ==
    /\ Len(s) \in {1, 2}
    /\ AllDigits(s)
    /\ DecVal(s) \in 1..12

\* %d : 3[01] | [12]\d | 0[1-9] | [1-9] | " "[1-9]
DayText(s) ==
    \/ Len(s) \in {1, 2} /\ AllDigits(s) /\ DecVal(s) \in 1..31
    \/ Len(s) = 2 /\ s[1] = " " /\ IsDigit(s[2]) /\ DigitVal(s[2]) \in 1..9

IsLeap(y) == y % 4 = 0 /\ (y % 100 # 0 \/ y % 400 = 0)

DaysInMonth(y, m) ==
    IF m = 2 THEN (IF IsLeap(y) THEN 29 ELSE 28)
    ELSE IF m \in {4, 6, 9, 11} THEN 30 ELSE 31

RECURSIVE DaysBeforeMonth(_, _)
DaysBeforeMonth(y, m) ==
    IF m = 1 THEN 0 ELSE DaysBeforeMonth(y, m - 1) + DaysInMonth(y, m - 1)

DaysBeforeYear(y) ==
    (y - 1) * 365 + ((y - 1) \div 4) - ((y - 1) \div 100) + ((y - 1) \div 400)

\* the three fields of a date text, when it has the shape of the format
DateFields(date) ==
    LET p == split(date, "-")
    IN  [y |-> DecVal(p[1]), m |-> DecVal(p[2]), d |-> DecVal(strip(p[3]))]

\* strptime(date, "%Y-%m-%d") does not raise ValueError
strptimeOk(date) ==
    LET p == split(date, "-")
    IN  /\ Len(p) = 3
        /\ YearText(p[1])
        /\ MonthText(p[2])
        /\ DayText(p[3])
        /\ DateFields(date).y >= 1
        /\ DateFields(date).d <= DaysInMonth(DateFields(date).y, DateFields(date).m)

\* date.weekday() : Monday is 0, Sunday is 6
weekday(date) ==
    LET f == DateFields(date)
        ordinal == DaysBeforeYear(f.y) + DaysBeforeMonth(f.y, f.m) + f.d
    IN  (ordinal + 6) % 7

(***************************************************************************)
(* Input values of the calls.                                              *)
(***************************************************************************)
\* Wednesday 4 June 2025
Wednesday == <<"2", "0", "2", "5", "-", "0", "6", "-", "0", "4">>
\* Saturday 7 June 2025
Saturday == <<"2", "0", "2", "5", "-", "0", "6", "-", "0", "7">>
\* Wednesday 4 June 2025 again, written without the zero padding
WednesdayShort == <<"2", "0", "2", "5", "-", "6", "-", "4">>
\* no calendar date
February30 == <<"2", "0", "2", "5", "-", "0", "2", "-", "3", "0">>

T1000 == <<"1", "0", ":", "0", "0">>
T1900 == <<"1", "9", ":", "0", "0">>
\* 19:00 without the zero padding of the minutes
T190 == <<"1", "9", ":", "0">>
\* no hour of the day
T2500 == <<"2", "5", ":", "0", "0">>

Dates == {Wednesday, Saturday, WednesdayShort, February30}
Times == {T1000, T1900, T190, T2500}
RestaurantIds == {"rest_1", "rest_404"}
CustomerNames == {"Ann"}
Emails == {"None"}
Phones == {"None"}
Statuses == {"confirmed", "cancelled"}

\* res_<%Y%m%d%H%M%S of now> : one id per clock second
ReservationId(now) == <<"res_", now>>

ReservationIds == {ReservationId(t) : t \in 0..MaxClock}

(***************************************************************************)
(* The catalog.  Restaurant.__init__ gives a restaurant without hours the  *)
(* default hours 11:00-22:00 on weekdays and 10:00-23:00 at weekends.      *)
(* The rating is in tenths of a star.                                      *)
(***************************************************************************)
DefaultHours ==
    [weekday |-> [open |-> <<"1", "1", ":", "0", "0">>,
                  close |-> <<"2", "2", ":", "0", "0">>],
     weekend |-> [open |-> <<"1", "0", ":", "0", "0">>,
                  close |-> <<"2", "3", ":", "0", "0">>]]

Catalog ==
    << [id |-> "rest_1", name |-> "Downtown Italian Bistro", cuisine |-> "Italian",
        location |-> "Downtown", capacity |-> 2, price_range |-> 2,
        rating |-> 45, hours |-> DefaultHours] >>

PartySizes == 0..(Catalog[1].capacity + 1)

\* the well-formed requests of the booking runs: dates and times in their
\* canonical form, parties within capacity
BookingDates == {Wednesday, Saturday}
BookingTimes == {T1000, T1900}
BookingSizes == 1..Catalog[1].capacity

(***************************************************************************)
(* State.                                                                  *)
(***************************************************************************)
VARIABLES
    restaurants,    \* restaurants.json : the catalog, in file order
    reservations,   \* reservations.json : the stored reservations, in file order
    clock,          \* datetime.now(), in seconds
    pc,             \* "idle" : the caller may issue a call; "done" : a call has returned
    call,           \* the call that returned last, with its arguments
    result,         \* what that call returned
    before          \* reservations.json as it was when that call started
                    \* (with two processes pc, call and result hold one entry
                    \* for each process)

vars == <<restaurants, reservations, clock, pc, call, result, before>>

NoCall == [op |-> "none"]
NoResult == [ok |-> FALSE, message |-> "", reservation |-> <<>>]

(***************************************************************************)
(* DataStore.                                                              *)
(***************************************************************************)
\* DataStore.get_restaurant : the first restaurant with the id, <<>> for None
get_restaurant(rs, restaurant_id) ==
    IF \E i \in 1..Len(rs) : rs[i].id = restaurant_id
    THEN <<rs[CHOOSE i \in 1..Len(rs) :
                /\ rs[i].id = restaurant_id
                /\ \A j \in 1..(i - 1) : rs[j].id # restaurant_id]>>
    ELSE <<>>

\* DataStore.get_reservation : the first reservation with the id, <<>> for None
get_reservation(store, reservation_id) ==
    IF \E i \in 1..Len(store) : store[i].id = reservation_id
    THEN <<store[CHOOSE i \in 1..Len(store) :
                /\ store[i].id = reservation_id
                /\ \A j \in 1..(i - 1) : store[j].id # reservation_id]>>
    ELSE <<>>

\* get_reservations_by_date with the status test inverted
get_reservations_by_date_cancelled(store, restaurant_id, date) ==
    SelectSeq(store, LAMBDA r : /\ r.restaurant_id = restaurant_id
                                /\ r.date = date
                                /\ r.status # "confirmed")

\* DataStore.get_reservations_by_date : confirmed reservations of a restaurant
\* whose date text equals the given text
get_reservations_by_date(store, restaurant_id, date) ==
    SelectSeq(store, LAMBDA r : /\ r.restaurant_id = restaurant_id
                                /\ r.date = date
                                /\ r.status = "confirmed")

\* what the file system does with the write of add_reservation: the file is
\* written; or open(file, "w") raises and the file is left as it was; or
\* open() has emptied the file and json.dump raises before the text is
\* complete, after which _load_json reads no valid JSON and returns []
WriteOutcomes == {"written", "unopened", "truncated"}

\* DataStore.add_reservation : replace the first reservation with the same id,
\* else append; when writing the file raises, the call returns False
add_reservation(store, reservation, write) ==
    IF write = "unopened" THEN [ok |-> FALSE, store |-> store]
    ELSE IF write = "truncated" THEN [ok |-> FALSE, store |-> <<>>]
    ELSE IF \E i \in 1..Len(store) : store[i].id = reservation.id
    THEN LET i == CHOOSE k \in 1..Len(store) :
                    /\ store[k].id = reservation.id
                    /\ \A j \in 1..(k - 1) : store[j].id # reservation.id
         IN  [ok |-> TRUE, store |-> [store EXCEPT ![i] = reservation]]
    ELSE [ok |-> TRUE, store |-> Append(store, reservation)]

(***************************************************************************)
(* Availability engine.                                                    *)
(***************************************************************************)
\* map(int, text.split(":")) unpacked into two names does not raise ValueError
HourMinuteOk(text) ==
    LET p == split(text, ":")
    IN  Len(p) = 2 /\ IntOk(p[1]) /\ IntOk(p[2])

Hour(text) == int(split(text, ":")[1])
Minute(text) == int(split(text, ":")[2])

RECURSIVE SlotLoop(_, _, _, _, _)
\* the while loop of check_availability: a slot every 30 minutes from
\* (current_hour, current_minute) while it is before (close_hour, close_minute)
SlotLoop(current_hour, current_minute, close_hour, close_minute, booked_times) ==
    IF \/ current_hour < close_hour
       \/ (current_hour = close_hour /\ current_minute < close_minute)
    THEN LET time_slot == FormatSlot(current_hour, current_minute)
             rest == IF current_minute + 30 >= 60
                     THEN SlotLoop(current_hour + 1, 0,
                                   close_hour, close_minute, booked_times)
                     ELSE SlotLoop(current_hour, current_minute + 30,
                                   close_hour, close_minute, booked_times)
         IN  IF InSeq(time_slot, booked_times) THEN rest ELSE <<time_slot>> \o rest
    ELSE <<>>

\* hour * 60 + minute of hour, minute = map(int, text.split(":"))
MinutesOfDay(text) ==
    LET p == split(text, ":")
    IN  int(p[1]) * 60 + int(p[2])

Abs(n) == IF n < 0 THEN 0 - n ELSE n

\* the filter with slots exactly 120 minutes away left out
NearSlots_strict(slots, time) ==
    LET requested_minutes == MinutesOfDay(time)
        Near(slot) == Abs(MinutesOfDay(slot) - requested_minutes) < 120
    IN  SelectSeq(slots, Near)

\* the filter of check_availability: slots within 120 minutes of the time
NearSlots(slots, time) ==
    LET requested_minutes == MinutesOfDay(time)
        Near(slot) == Abs(MinutesOfDay(slot) - requested_minutes) <= 120
    IN  SelectSeq(slots, Near)

\* an optional party_size is <<>> for None and <<n>> for the integer n;
\* Python treats it as true when it is given and not 0
Truthy(party_size) == party_size # <<>> /\ party_size[1] # 0

\* check_availability without the check of the party size
check_availability_any_party(rs, store, restaurant_id, date, time, party_size) ==
    LET found == get_restaurant(rs, restaurant_id)
    IN  IF found = <<>> THEN <<>>
        ELSE IF ~strptimeOk(date) THEN <<>>
        ELSE
          LET existing == get_reservations_by_date(store, restaurant_id, date)
              booked_times == [i \in 1..Len(existing) |-> existing[i].time]
              day_type == IF weekday(date) >= 5 THEN "weekend" ELSE "weekday"
              hours == found[1].hours[day_type]
              available_slots ==
                  SlotLoop(Hour(hours.open), Minute(hours.open),
                           Hour(hours.close), Minute(hours.close), booked_times)
          IN  IF day_type \notin DOMAIN found[1].hours THEN <<>>
              ELSE IF time # <<>> /\ HourMinuteOk(time)
              THEN NearSlots(available_slots, time)
              ELSE available_slots

\* check_availability(data_store, restaurant_id, date, time, party_size);
\* a time that is not given (None) is the empty text <<>>, false like None
check_availability(rs, store, restaurant_id, date, time, party_size) ==
    LET found == get_restaurant(rs, restaurant_id)
    IN  IF found = <<>> THEN <<>>
        ELSE IF Truthy(party_size) /\ party_size[1] > found[1].capacity THEN <<>>
        ELSE IF ~strptimeOk(date) THEN <<>>
        ELSE
          LET existing == get_reservations_by_date(store, restaurant_id, date)
              booked_times == [i \in 1..Len(existing) |-> existing[i].time]
              day_type == IF weekday(date) >= 5 THEN "weekend" ELSE "weekday"
              hours == found[1].hours[day_type]
              available_slots ==
                  SlotLoop(Hour(hours.open), Minute(hours.open),
                           Hour(hours.close), Minute(hours.close), booked_times)
          IN  IF day_type \notin DOMAIN found[1].hours THEN <<>>
              ELSE IF time # <<>> /\ HourMinuteOk(time)
              THEN NearSlots(available_slots, time)
              ELSE available_slots

(***************************************************************************)
(* Reservation service.                                                    *)
(***************************************************************************)
\* Reservation(...).to_dict() : status is "confirmed" and created_at is now
Reservation(id, restaurant_id, customer_name, date, time, party_size, email, phone, now) ==
    [id |-> id, restaurant_id |-> restaurant_id, customer_name |-> customer_name,
     date |-> date, time |-> time, party_size |-> party_size, email |-> email,
     phone |-> phone, status |-> "confirmed", created_at |-> now]

Returns(ok, message, reservation) ==
    [ok |-> ok, message |-> message, reservation |-> reservation]

\* the time check of validate_reservation_data: "ok", or which return it takes
TimeCheck(time) ==
    LET p == split(time, ":")
    IN  IF Len(p) # 2 \/ ~IntOk(p[1]) \/ ~IntOk(p[2]) THEN "format"
        ELSE IF ~(int(p[1]) \in 0..23 /\ int(p[2]) \in 0..59) THEN "range"
        ELSE "ok"

\* validate_reservation_data : the message it returns, "Validation successful"
\* when the data are valid
validate_reservation_data(rs, restaurant_id, date, time, party_size) ==
    LET found == get_restaurant(rs, restaurant_id)
    IN  IF found = <<>> THEN "Restaurant does not exist"
        ELSE IF ~strptimeOk(date) THEN "Invalid date format"
        ELSE IF TimeCheck(time) = "range" THEN "Invalid time"
        ELSE IF TimeCheck(time) = "format" THEN "Invalid time format"
        ELSE IF party_size <= 0 THEN "Invalid party size"
        ELSE IF party_size > found[1].capacity THEN "Party size exceeds restaurant capacity"
        ELSE "Validation successful"

\* make_reservation without the availability check
make_reservation_unchecked(rs, store, restaurant_id, customer_name, date, time, party_size, email, phone, now, write) ==
    LET found == get_restaurant(rs, restaurant_id)
        message == validate_reservation_data(rs, restaurant_id, date, time, party_size)
        reservation == Reservation(ReservationId(now), restaurant_id, customer_name,
                                   date, time, party_size, email, phone, now)
        saved == add_reservation(store, reservation, write)
    IN  IF found = <<>>
        THEN [store |-> store, result |-> Returns(FALSE, "Restaurant not found", <<>>)]
        ELSE IF party_size > found[1].capacity
        THEN [store |-> store,
              result |-> Returns(FALSE, "Party size exceeds restaurant capacity", <<>>)]
        ELSE IF message # "Validation successful"
        THEN [store |-> store, result |-> Returns(FALSE, message, <<>>)]
        ELSE [store |-> saved.store, result |-> Returns(saved.ok, "", <<reservation>>)]

\* make_reservation without its own capacity check, which leaves the one at
\* the end of validate_reservation_data
make_reservation_late_capacity(rs, store, restaurant_id, customer_name, date, time, party_size, email, phone, now, write) ==
    LET found == get_restaurant(rs, restaurant_id)
        message == validate_reservation_data(rs, restaurant_id, date, time, party_size)
        available_slots ==
            check_availability(rs, store, restaurant_id, date, time, <<party_size>>)
        reservation == Reservation(ReservationId(now), restaurant_id, customer_name,
                                   date, time, party_size, email, phone, now)
        saved == add_reservation(store, reservation, write)
    IN  IF found = <<>>
        THEN [store |-> store, result |-> Returns(FALSE, "Restaurant not found", <<>>)]
        ELSE IF message # "Validation successful"
        THEN [store |-> store, result |-> Returns(FALSE, message, <<>>)]
        ELSE IF ~InSeq(time, available_slots)
        THEN [store |-> store,
              result |-> Returns(FALSE, "The requested time slot is not available", <<>>)]
        ELSE [store |-> saved.store, result |-> Returns(saved.ok, "", <<reservation>>)]

\* make_reservation : the file after the call and what the call returns
make_reservation(rs, store, restaurant_id, customer_name, date, time, party_size, email, phone, now, write) ==
    LET found == get_restaurant(rs, restaurant_id)
        message == validate_reservation_data(rs, restaurant_id, date, time, party_size)
        available_slots ==
            check_availability(rs, store, restaurant_id, date, time, <<party_size>>)
        reservation == Reservation(ReservationId(now), restaurant_id, customer_name,
                                   date, time, party_size, email, phone, now)
        saved == add_reservation(store, reservation, write)
    IN  IF found = <<>>
        THEN [store |-> store, result |-> Returns(FALSE, "Restaurant not found", <<>>)]
        ELSE IF party_size > found[1].capacity
        THEN [store |-> store,
              result |-> Returns(FALSE, "Party size exceeds restaurant capacity", <<>>)]
        ELSE IF message # "Validation successful"
        THEN [store |-> store, result |-> Returns(FALSE, message, <<>>)]
        ELSE IF ~InSeq(time, available_slots)
        THEN [store |-> store,
              result |-> Returns(FALSE, "The requested time slot is not available", <<>>)]
        ELSE [store |-> saved.store, result |-> Returns(saved.ok, "", <<reservation>>)]

\* the reservation with the fields of updates applied (lines "Apply updates")
ApplyUpdates(reservation, updates) ==
    [f \in DOMAIN reservation |->
        IF f \in DOMAIN updates /\ f \in {"date", "time", "party_size", "status",
                                          "email", "phone"}
        THEN updates[f] ELSE reservation[f]]

\* updates.get(field, default)
Get(updates, field, default) ==
    IF field \in DOMAIN updates THEN updates[field] ELSE default

\* update_reservation without the refusal of cancelled reservations
update_reservation_of_cancelled(rs, store, reservation_id, updates, write) ==
    LET found == get_reservation(store, reservation_id)
    IN  IF found = <<>>
        THEN [store |-> store, result |-> Returns(FALSE, "Reservation not found", <<>>)]
        ELSE
          LET reservation == found[1]
              new_date == Get(updates, "date", reservation.date)
              new_time == Get(updates, "time", reservation.time)
              new_party_size == Get(updates, "party_size", reservation.party_size)
              changing == \/ new_date # reservation.date
                          \/ new_time # reservation.time
                          \/ new_party_size # reservation.party_size
              available_slots ==
                  check_availability(rs, store, reservation.restaurant_id,
                                     new_date, new_time, <<new_party_size>>)
              updated == ApplyUpdates(reservation, updates)
          IN  IF changing /\ ~InSeq(new_time, available_slots)
              THEN [store |-> store,
                    result |-> Returns(FALSE, "The requested time slot is not available", <<>>)]
              ELSE [store |-> add_reservation(store, updated, write).store,
                    result |-> Returns(TRUE, "", <<updated>>)]

\* update_reservation with the availability check run only when the time or
\* the party size changes
update_reservation_date_unchecked(rs, store, reservation_id, updates, write) ==
    LET found == get_reservation(store, reservation_id)
    IN  IF found = <<>>
        THEN [store |-> store, result |-> Returns(FALSE, "Reservation not found", <<>>)]
        ELSE IF found[1].status = "cancelled"
        THEN [store |-> store,
              result |-> Returns(FALSE, "Cannot modify a cancelled reservation", <<>>)]
        ELSE
          LET reservation == found[1]
              new_date == Get(updates, "date", reservation.date)
              new_time == Get(updates, "time", reservation.time)
              new_party_size == Get(updates, "party_size", reservation.party_size)
              changing == \/ new_time # reservation.time
                          \/ new_party_size # reservation.party_size
              available_slots ==
                  check_availability(rs, store, reservation.restaurant_id,
                                     new_date, new_time, <<new_party_size>>)
              updated == ApplyUpdates(reservation, updates)
          IN  IF changing /\ ~InSeq(new_time, available_slots)
              THEN [store |-> store,
                    result |-> Returns(FALSE, "The requested time slot is not available", <<>>)]
              ELSE [store |-> add_reservation(store, updated, write).store,
                    result |-> Returns(TRUE, "", <<updated>>)]

\* update_reservation : the file after the call and what the call returns;
\* the value add_reservation returns is not looked at
update_reservation(rs, store, reservation_id, updates, write) ==
    LET found == get_reservation(store, reservation_id)
    IN  IF found = <<>>
        THEN [store |-> store, result |-> Returns(FALSE, "Reservation not found", <<>>)]
        ELSE IF found[1].status = "cancelled"
        THEN [store |-> store,
              result |-> Returns(FALSE, "Cannot modify a cancelled reservation", <<>>)]
        ELSE
          LET reservation == found[1]
              new_date == Get(updates, "date", reservation.date)
              new_time == Get(updates, "time", reservation.time)
              new_party_size == Get(updates, "party_size", reservation.party_size)
              changing == \/ new_date # reservation.date
                          \/ new_time # reservation.time
                          \/ new_party_size # reservation.party_size
              available_slots ==
                  check_availability(rs, store, reservation.restaurant_id,
                                     new_date, new_time, <<new_party_size>>)
              updated == ApplyUpdates(reservation, updates)
          IN  IF changing /\ ~InSeq(new_time, available_slots)
              THEN [store |-> store,
                    result |-> Returns(FALSE, "The requested time slot is not available", <<>>)]
              ELSE [store |-> add_reservation(store, updated, write).store,
                    result |-> Returns(TRUE, "", <<updated>>)]

\* cancel_reservation : the file after the call and what the call returns;
\* the value add_reservation returns is not looked at
cancel_reservation(store, reservation_id, write) ==
    LET found == get_reservation(store, reservation_id)
    IN  IF found = <<>>
        THEN [store |-> store, result |-> Returns(FALSE, "Reservation not found", <<>>)]
        ELSE IF found[1].status = "cancelled"
        THEN [store |-> store,
              result |-> Returns(FALSE, "Reservation is already cancelled", <<>>)]
        ELSE [store |-> add_reservation(store, [found[1] EXCEPT !.status = "cancelled"],
                                        write).store,
              result |-> Returns(TRUE, "Reservation successfully cancelled", <<>>)]

(***************************************************************************)
(* The calls.  Each handler runs to completion in one step (single writer) *)
(* and leaves its arguments, its return value and the file it started from *)
(* for the caller, who takes them and may then issue the next call.        *)
(***************************************************************************)
\* None, or one value of S
Optional(S) == {<<>>} \cup {<<v>> : v \in S}

\* the updates dictionary with the given optional fields
UpdatesDict(date, time, party_size, status) ==
    LET given == [date |-> date, time |-> time, party_size |-> party_size,
                  status |-> status]
    IN  [f \in {g \in DOMAIN given : given[g] # <<>>} |-> given[f][1]]

Init ==
    /\ restaurants = Catalog
    /\ reservations = <<>>
    /\ clock = 0
    /\ pc = "idle"
    /\ call = NoCall
    /\ result = NoResult
    /\ before = <<>>

Returned(c, out) ==
    /\ reservations' = out.store
    /\ result' = out.result
    /\ call' = c
    /\ before' = reservations
    /\ pc' = "done"
    /\ UNCHANGED <<restaurants, clock>>

\* one make_reservation call with arguments of the given sets
Make(restaurant_ids, dates, times, party_sizes) ==
    /\ pc = "idle"
    /\ \E restaurant_id \in restaurant_ids, customer_name \in CustomerNames,
          date \in dates, time \in times, party_size \in party_sizes,
          email \in Emails, phone \in Phones, write \in WriteOutcomes :
          Returned([op |-> "make_reservation", restaurant_id |-> restaurant_id,
                    customer_name |-> customer_name, date |-> date, time |-> time,
                    party_size |-> party_size, email |-> email, phone |-> phone],
                   make_reservation(restaurants, reservations, restaurant_id,
                                    customer_name, date, time, party_size,
                                    email, phone, clock, write))

\* a well-formed booking request
MakeReservation == Make({Catalog[1].id}, BookingDates, BookingTimes, BookingSizes)

\* any booking request
MakeAnyReservation == Make(RestaurantIds, Dates, Times, PartySizes)

\* one update_reservation call whose updates take their fields from the
\* given sets; a field with the empty set is never in the dictionary
Update(dates, times, party_sizes, statuses) ==
    /\ pc = "idle"
    /\ \E reservation_id \in ReservationIds, write \in WriteOutcomes,
          date \in Optional(dates), time \in Optional(times),
          party_size \in Optional(party_sizes), status \in Optional(statuses) :
          LET updates == UpdatesDict(date, time, party_size, status)
          IN  Returned([op |-> "update_reservation",
                        reservation_id |-> reservation_id, updates |-> updates],
                       update_reservation(restaurants, reservations,
                                          reservation_id, updates, write))

\* the booking is moved to another date or time, or its status is set
UpdateReservation == Update(BookingDates, BookingTimes, {}, Statuses)

\* the party size is changed, alone or together with the time
UpdatePartySize == Update({}, BookingTimes, PartySizes, {})

CancelReservation ==
    /\ pc = "idle"
    /\ \E reservation_id \in ReservationIds, write \in WriteOutcomes :
          Returned([op |-> "cancel_reservation", reservation_id |-> reservation_id],
                   cancel_reservation(reservations, reservation_id, write))

\* the caller takes the return value
Ack ==
    /\ pc = "done"
    /\ pc' = "idle"
    /\ call' = NoCall
    /\ result' = NoResult
    /\ before' = <<>>
    /\ UNCHANGED <<restaurants, reservations, clock>>

\* a second passes
Tick ==
    /\ pc = "idle"
    /\ clock < MaxClock
    /\ clock' = clock + 1
    /\ UNCHANGED <<restaurants, reservations, pc, call, result, before>>

\* the life of the bookings: well-formed requests, updates and cancellations
Next ==
    \/ MakeReservation
    \/ UpdateReservation
    \/ CancelReservation
    \/ Ack
    \/ Tick

Spec == Init /\ [][Next]_vars

\* the requests of every kind, valid or not, without later changes
NextRequests ==
    \/ MakeAnyReservation
    \/ Ack
    \/ Tick

SpecRequests == Init /\ [][NextRequests]_vars

\* bookings of one evening and the changes of their party size
MakeSaturdayReservation == Make({Catalog[1].id}, {Saturday}, BookingTimes, BookingSizes)

NextPartySize ==
    \/ MakeSaturdayReservation
    \/ UpdatePartySize
    \/ Ack
    \/ Tick

SpecPartySize == Init /\ [][NextPartySize]_vars

(***************************************************************************)
(* Availability queries on restaurants with other opening hours.           *)
(***************************************************************************)
\* Sunday 8 June 2025
Sunday == <<"2", "0", "2", "5", "-", "0", "6", "-", "0", "8">>

T1115 == <<"1", "1", ":", "1", "5">>
T1145 == <<"1", "1", ":", "4", "5">>
T1300 == <<"1", "3", ":", "0", "0">>
T1730 == <<"1", "7", ":", "3", "0">>
T1910 == <<"1", "9", ":", "1", "0">>

\* opening hours of one day class, open before close
HoursChoices ==
    { DefaultHours.weekday,
      DefaultHours.weekend,
      [open |-> T1115, close |-> T1300],
      [open |-> T1145, close |-> T1300],
      [open |-> T1730, close |-> T1910] }

AvailabilityDates == {Wednesday, WednesdayShort, Saturday, Sunday, February30}
AvailabilityTimes == {T1115, T1900, T190, T2500}

\* restaurants.json holds the one restaurant, with hours of HoursChoices
InitAvailability ==
    /\ \E weekday_hours \in HoursChoices, weekend_hours \in HoursChoices :
          restaurants = << [Catalog[1] EXCEPT
                               !.hours = [weekday |-> weekday_hours,
                                          weekend |-> weekend_hours]] >>
    /\ reservations = <<>>
    /\ clock = 0
    /\ pc = "idle"
    /\ call = NoCall
    /\ result = NoResult
    /\ before = <<>>

\* the check_availability tool: the slots it finds are what the call returns
CheckAvailability ==
    /\ pc = "idle"
    /\ \E restaurant_id \in RestaurantIds, date \in AvailabilityDates,
          time \in {<<>>} \cup AvailabilityTimes, party_size \in Optional(PartySizes) :
          /\ call' = [op |-> "check_availability", restaurant_id |-> restaurant_id,
                      date |-> date, time |-> time, party_size |-> party_size]
          /\ result' = [slots |-> check_availability(restaurants, reservations,
                                                     restaurant_id, date, time,
                                                     party_size)]
    /\ before' = reservations
    /\ pc' = "done"
    /\ UNCHANGED <<restaurants, reservations, clock>>

\* list[:k]: the first k elements, and all but the last -k when k < 0
Slice(list, k) ==
    SubSeq(list, 1, IF k >= Len(list) THEN Len(list)
                    ELSE IF k >= 0 THEN k
                    ELSE IF Len(list) + k >= 0 THEN Len(list) + k
                    ELSE 0)

\* list.remove(x): the list without the first x in it
Remove(list, x) ==
    LET first == CHOOSE i \in 1..Len(list) :
                     list[i] = x /\ \A j \in 1..(i - 1) : list[j] # x
    IN  SubSeq(list, 1, first - 1) \o SubSeq(list, first + 1, Len(list))

\* the (slot, diff) pairs of the slots, diff the minutes between the slot
\* and the preferred time
scored_slots(slots, time) ==
    [i \in 1..Len(slots) |->
        <<slots[i], Abs(MinutesOfDay(slots[i]) - MinutesOfDay(time))>>]

\* the sort with pairs of equal key in the reverse of their order
sort_ties_reversed(scored, reverse) ==
    LET n == Len(scored)
        Sorted(position) ==
            [k \in 1..n |-> scored[CHOOSE i \in 1..n : position[i] = k]]
    IN  CHOOSE sorted \in
            {Sorted(position) : position \in
                {[i \in 1..n |->
                    1 + Cardinality({j \in 1..n :
                            \/ (~reverse /\ scored[j][2] < scored[i][2])
                            \/ (reverse /\ scored[j][2] > scored[i][2])
                            \/ (scored[j][2] = scored[i][2] /\ j > i)})]}} : TRUE

\* list.sort(key=lambda x: x[1], reverse=reverse) of (item, key) pairs: in
\* ascending order of the key, in descending order with reverse; the sort
\* is stable, so pairs of equal key keep their order, with reverse too.
\* The place of pair i is one more than the number of pairs that go before.
sort(scored, reverse) ==
    LET n == Len(scored)
        Sorted(position) ==
            [k \in 1..n |-> scored[CHOOSE i \in 1..n : position[i] = k]]
    IN  CHOOSE sorted \in
            {Sorted(position) : position \in
                {[i \in 1..n |->
                    1 + Cardinality({j \in 1..n :
                            \/ (~reverse /\ scored[j][2] < scored[i][2])
                            \/ (reverse /\ scored[j][2] > scored[i][2])
                            \/ (scored[j][2] = scored[i][2] /\ j < i)})]}} : TRUE

\* suggest_alternative_times(data_store, restaurant_id, date, time,
\* party_size, num_alternatives); time is a text
suggest_alternative_times(rs, store, restaurant_id, date, time, party_size, num_alternatives) ==
    LET Suggest(available_slots) ==
            LET present == InSeq(time, available_slots)
                others == IF present THEN Remove(available_slots, time)
                          ELSE available_slots
                alternatives == IF present THEN <<time>> ELSE <<>>
                remaining_slots == IF present THEN num_alternatives - 1
                                   ELSE num_alternatives
                Slots(sorted) == [i \in 1..Len(sorted) |-> sorted[i][1]]
            IN  IF available_slots = <<>> THEN <<>>
                ELSE IF HourMinuteOk(time)
                THEN CHOOSE extended \in
                        {alternatives \o Slice(Slots(sort(scored, FALSE)), remaining_slots) :
                            scored \in {scored_slots(others, time)}} : TRUE
                ELSE alternatives \o Slice(others, remaining_slots)
    IN  CHOOSE alternatives \in
            {Suggest(available_slots) : available_slots \in
                {check_availability(rs, store, restaurant_id, date,
                                    <<>>, <<party_size>>)}} : TRUE

\* the numbers of alternatives asked for
Counts == 0..3

\* one call of suggest_alternative_times
SuggestAlternativeTimes ==
    /\ pc = "idle"
    /\ \E restaurant_id \in RestaurantIds, date \in {Wednesday, Saturday, February30},
          time \in AvailabilityTimes, party_size \in {1, Catalog[1].capacity + 1},
          num_alternatives \in Counts :
          /\ call' = [op |-> "suggest_alternative_times",
                      restaurant_id |-> restaurant_id, date |-> date,
                      time |-> time, party_size |-> party_size,
                      num_alternatives |-> num_alternatives]
          /\ result' = [slots |-> suggest_alternative_times(
                                      restaurants, reservations, restaurant_id,
                                      date, time, party_size, num_alternatives)]
    /\ before' = reservations
    /\ pc' = "done"
    /\ UNCHANGED <<restaurants, reservations, clock>>

\* a booking of a Wednesday or Saturday evening
MakeEveningReservation == Make({Catalog[1].id}, BookingDates, {T1900}, {1})

NextAvailability ==
    \/ CheckAvailability
    \/ SuggestAlternativeTimes
    \/ MakeEveningReservation
    \/ Ack
    \/ Tick

SpecAvailability == InitAvailability /\ [][NextAvailability]_vars

(***************************************************************************)
(* Texts.  What the user types, and every text the code searches, is a     *)
(* sequence of one-character strings, so that lower(), "in" and count()    *)
(* are computed.  None is a value that is no text.                         *)
(***************************************************************************)
None == <<"None">>

UpperChars == <<"A", "B", "C", "D", "E", "F", "G", "H", "I", "J", "K", "L", "M", "N", "O", "P", "Q", "R", "S", "T", "U", "V", "W", "X", "Y", "Z">>
LowerChars == <<"a", "b", "c", "d", "e", "f", "g", "h", "i", "j", "k", "l", "m", "n", "o", "p", "q", "r", "s", "t", "u", "v", "w", "x", "y", "z">>

\* str.lower()
lower(text) ==
    [i \in 1..Len(text) |->
        IF \E k \in 1..26 : UpperChars[k] = text[i]
        THEN LowerChars[CHOOSE k \in 1..26 : UpperChars[k] = text[i]]
        ELSE text[i]]

\* str.capitalize()
capitalize(text) ==
    [i \in 1..Len(text) |->
        IF i = 1 /\ \E k \in 1..26 : LowerChars[k] = text[i]
        THEN UpperChars[CHOOSE k \in 1..26 : LowerChars[k] = text[i]]
        ELSE lower(text)[i]]

\* pattern in text
Contains(text, pattern) ==
    \E t \in {text}, p \in {pattern} :
        \E i \in 0..(Len(t) - Len(p)) : SubSeq(t, i + 1, i + Len(p)) = p

\* any(pattern in text for pattern in patterns)
ContainsAny(text, patterns) ==
    \E t \in {text} : \E k \in 1..Len(patterns) : Contains(t, patterns[k])

\* text.count(c) for one character
str_count(text, c) == Cardinality({i \in 1..Len(text) : text[i] = c})

\* what the user types
ShowMeRestaurants == <<"s", "h", "o", "w", " ", "m", "e", " ", "r", "e", "s", "t", "a", "u", "r", "a", "n", "t", "s">>
FindItalianDowntown == <<"f", "i", "n", "d", " ", "I", "t", "a", "l", "i", "a", "n", " ", "f", "o", "o", "d", " ", "d", "o", "w", "n", "t", "o", "w", "n">>
ItalianRestaurant == <<"a", "n", " ", "i", "t", "a", "l", "i", "a", "n", " ", "r", "e", "s", "t", "a", "u", "r", "a", "n", "t">>
ChooseTheBistro == <<"c", "h", "o", "o", "s", "e", " ", "t", "h", "e", " ", "b", "i", "s", "t", "r", "o">>
Hello == <<"h", "e", "l", "l", "o">>

UserMessages ==
    {ShowMeRestaurants, FindItalianDowntown, ItalianRestaurant, ChooseTheBistro,
     Hello}

(***************************************************************************)
(* QueryValidator and ToolValidator.                                       *)
(***************************************************************************)
\* the alternatives of cuisine_pattern and of location_pattern
cuisine_pattern ==
    <<<<"i", "t", "a", "l", "i", "a", "n">>, <<"f", "r", "e", "n", "c", "h">>, <<"i", "n", "d", "i", "a", "n">>, <<"c", "h", "i", "n", "e", "s", "e">>, <<"j", "a", "p", "a", "n", "e", "s", "e">>, <<"t", "h", "a", "i">>,
      <<"m", "e", "x", "i", "c", "a", "n">>, <<"a", "m", "e", "r", "i", "c", "a", "n">>, <<"m", "e", "d", "i", "t", "e", "r", "r", "a", "n", "e", "a", "n">>>>

location_pattern ==
    <<<<"d", "o", "w", "n", "t", "o", "w", "n">>, <<"u", "p", "t", "o", "w", "n">>, <<"m", "i", "d", "t", "o", "w", "n">>, <<"w", "e", "s", "t", " ", "s", "i", "d", "e">>, <<"e", "a", "s", "t", " ", "s", "i", "d", "e">>,
      <<"w", "a", "t", "e", "r", "f", "r", "o", "n", "t">>>>

specific_words ==
    <<<<"s", "e", "a", "r", "c", "h">>, <<"f", "i", "n", "d">>, <<"l", "o", "o", "k", "i", "n", "g", " ", "f", "o", "r">>, <<"p", "r", "i", "c", "e">>, <<"$">>, <<"p", "e", "o", "p", "l", "e">>,
      <<"p", "e", "r", "s", "o", "n">>>>

vague_patterns ==
    <<<<"s", "h", "o", "w", " ", "m", "e", " ", "o", "p", "t", "i", "o", "n", "s">>, <<"g", "i", "v", "e", " ", "m", "e", " ", "o", "p", "t", "i", "o", "n", "s">>, <<"l", "i", "s", "t", " ", "r", "e", "s", "t", "a", "u", "r", "a", "n", "t", "s">>,
      <<"w", "h", "a", "t", " ", "d", "o", " ", "y", "o", "u", " ", "h", "a", "v", "e">>, <<"w", "h", "a", "t", "'", "s", " ", "a", "v", "a", "i", "l", "a", "b", "l", "e">>, <<"s", "h", "o", "w", " ", "m", "e", " ", "r", "e", "s", "t", "a", "u", "r", "a", "n", "t", "s">>,
      <<"g", "i", "v", "e", " ", "m", "e", " ", "r", "e", "s", "t", "a", "u", "r", "a", "n", "t", "s">>, <<"r", "e", "s", "t", "a", "u", "r", "a", "n", "t", "s">>, <<"o", "p", "t", "i", "o", "n", "s">>>>

\* is_vague_query without its first test: the generic phrasings alone decide
is_vague_query_phrasing_only(text) ==
    LET query == lower(text)
    IN  ContainsAny(query, vague_patterns)

is_vague_query(text) ==
    LET query == lower(text)
    IN  IF \/ ContainsAny(query, cuisine_pattern)
           \/ ContainsAny(query, location_pattern)
           \/ ContainsAny(query, specific_words)
        THEN FALSE
        ELSE ContainsAny(query, vague_patterns)

\* get_clarification_prompt() : one fixed text, by its first sentence
ClarificationPrompt == "I'd be happy to help you find a restaurant! ..."

\* cuisine_variations and location_variations, as (key, variations) pairs
cuisine_variations ==
    << <<<<"i", "t", "a", "l", "i", "a", "n">>, <<<<"p", "a", "s", "t", "a">>, <<"p", "i", "z", "z", "a">>, <<"i", "t", "a", "l", "i", "a", "n", " ", "f", "o", "o", "d">>>> >>,
       <<<<"c", "h", "i", "n", "e", "s", "e">>, <<<<"c", "h", "i", "n", "e", "s", "e", " ", "f", "o", "o", "d">>, <<"a", "s", "i", "a", "n">>, <<"d", "i", "m", " ", "s", "u", "m">>>> >>,
       <<<<"j", "a", "p", "a", "n", "e", "s", "e">>, <<<<"s", "u", "s", "h", "i">>, <<"r", "a", "m", "e", "n">>, <<"j", "a", "p", "a", "n", "e", "s", "e", " ", "f", "o", "o", "d">>>> >>,
       <<<<"m", "e", "x", "i", "c", "a", "n">>, <<<<"t", "a", "c", "o", "s">>, <<"m", "e", "x", "i", "c", "a", "n", " ", "f", "o", "o", "d">>, <<"b", "u", "r", "r", "i", "t", "o", "s">>>> >>,
       <<<<"i", "n", "d", "i", "a", "n">>, <<<<"c", "u", "r", "r", "y">>, <<"i", "n", "d", "i", "a", "n", " ", "f", "o", "o", "d">>, <<"t", "i", "k", "k", "a">>>> >>,
       <<<<"t", "h", "a", "i">>, <<<<"t", "h", "a", "i", " ", "f", "o", "o", "d">>, <<"p", "a", "d", " ", "t", "h", "a", "i">>>> >>,
       <<<<"a", "m", "e", "r", "i", "c", "a", "n">>, <<<<"b", "u", "r", "g", "e", "r">>, <<"a", "m", "e", "r", "i", "c", "a", "n", " ", "f", "o", "o", "d">>, <<"s", "t", "e", "a", "k">>>> >>,
       <<<<"f", "r", "e", "n", "c", "h">>, <<<<"f", "r", "e", "n", "c", "h", " ", "f", "o", "o", "d">>, <<"b", "i", "s", "t", "r", "o">>>> >> >>

location_variations ==
    << <<<<"d", "o", "w", "n", "t", "o", "w", "n">>, <<<<"c", "i", "t", "y", " ", "c", "e", "n", "t", "e", "r">>, <<"c", "e", "n", "t", "r", "a", "l">>>> >>,
       <<<<"u", "p", "t", "o", "w", "n">>, <<<<"u", "p", "p", "e", "r">>, <<"n", "o", "r", "t", "h">>>> >>,
       <<<<"m", "i", "d", "t", "o", "w", "n">>, <<<<"m", "i", "d", "d", "l", "e">>, <<"c", "e", "n", "t", "e", "r">>>> >>,
       <<<<"w", "e", "s", "t", " ", "s", "i", "d", "e">>, <<<<"w", "e", "s", "t", "e", "r", "n">>, <<"w", "e", "s", "t">>>> >>,
       <<<<"e", "a", "s", "t", " ", "s", "i", "d", "e">>, <<<<"e", "a", "s", "t", "e", "r", "n">>, <<"e", "a", "s", "t">>>> >>,
       <<<<"w", "a", "t", "e", "r", "f", "r", "o", "n", "t">>, <<<<"b", "y", " ", "t", "h", "e", " ", "w", "a", "t", "e", "r">>, <<"n", "e", "a", "r", " ", "w", "a", "t", "e", "r">>, <<"r", "i", "v", "e", "r", "s", "i", "d", "e">>,
                          <<"l", "a", "k", "e", "s", "i", "d", "e">>>> >> >>

\* value in query, or a variation listed under value in query
Mentioned(query, value, variations) ==
    \/ Contains(query, lower(value))
    \/ \E k \in 1..Len(variations) :
          /\ variations[k][1] = lower(value)
          /\ ContainsAny(query, variations[k][2])

_mentioned_cuisine(query, cuisine) == Mentioned(query, cuisine, cuisine_variations)

_mentioned_location(query, location) == Mentioned(query, location, location_variations)

price_patterns ==
    << <<<<"c", "h", "e", "a", "p">>, <<"i", "n", "e", "x", "p", "e", "n", "s", "i", "v", "e">>, <<"b", "u", "d", "g", "e", "t">>, <<"a", "f", "f", "o", "r", "d", "a", "b", "l", "e">>>>,
       <<<<"m", "o", "d", "e", "r", "a", "t", "e">>, <<"m", "i", "d", "-", "r", "a", "n", "g", "e">>, <<"r", "e", "a", "s", "o", "n", "a", "b", "l", "e">>>>,
       <<<<"e", "x", "p", "e", "n", "s", "i", "v", "e">>, <<"h", "i", "g", "h", "-", "e", "n", "d">>, <<"p", "r", "i", "c", "e", "y">>>>,
       <<<<"v", "e", "r", "y", " ", "e", "x", "p", "e", "n", "s", "i", "v", "e">>, <<"l", "u", "x", "u", "r", "y">>, <<"t", "o", "p", "-", "e", "n", "d">>, <<"f", "i", "n", "e", "s", "t">>>> >>

price_words ==
    <<<<"p", "r", "i", "c", "e">>, <<"c", "o", "s", "t">>, <<"e", "x", "p", "e", "n", "s", "i", "v", "e">>, <<"c", "h", "e", "a", "p">>, <<"a", "f", "f", "o", "r", "d", "a", "b", "l", "e">>, <<"b", "u", "d", "g", "e", "t">>>>

_mentioned_price(query, price_range) ==
    LET dollar_count == str_count(query, "$")
    IN  IF 1 <= dollar_count /\ dollar_count <= 4
        THEN dollar_count >= price_range
        ELSE \/ /\ price_range \in 1..4
                /\ ContainsAny(query, price_patterns[price_range])
             \/ ContainsAny(query, price_words)

(***************************************************************************)
(* Messages and tool calls.  The argument payload of a tool call is JSON   *)
(* text: json.dumps() of a dictionary, or a text json.loads() rejects.     *)
(***************************************************************************)
Message(role, content) == [role |-> role, content |-> content]

EmptyDict == [k \in {} |-> k]

\* json.dumps(members)
dumps(members) == [json |-> "object", members |-> members]

\* a payload on which json.loads() raises
Malformed == [json |-> "malformed", members |-> EmptyDict]

ToolCall(id, name, arguments) ==
    [id |-> id, type |-> "function",
     function |-> [name |-> name, arguments |-> arguments]]

\* the dictionary with the keys of the given optional values
Dict(given) == [k \in {g \in DOMAIN given : given[g] # <<>>} |-> given[k][1]]

validate_search_restaurants_tool(tool_call, user_query) ==
    LET arguments == tool_call.function.arguments.members
        \* the argument is in the dictionary with a value that counts as true
        Given(param) ==
            /\ param \in DOMAIN arguments
            /\ IF param = "price_range" THEN arguments[param] # 0
               ELSE arguments[param] # None /\ arguments[param] # <<>>
    IN  IF tool_call.function.name # "search_restaurants" THEN TRUE
        ELSE IF tool_call.function.arguments.json # "object" THEN FALSE
        ELSE /\ Given("cuisine")
                    => _mentioned_cuisine(lower(user_query), arguments["cuisine"])
             /\ Given("location")
                    => _mentioned_location(lower(user_query), arguments["location"])
             /\ Given("price_range")
                    => _mentioned_price(lower(user_query), arguments["price_range"])

(***************************************************************************)
(* LLMService.  What requests.post() does is the environment's choice: it  *)
(* raises (time-out, no connection, a body that is not the expected JSON), *)
(* or it answers with a status code and, under 200, a message.  The tools  *)
(* are registered (register_tools), so a request with tools carries them.  *)
(***************************************************************************)
\* the sentence chat() answers a status other than 200 and 429 with
ApologyReply == "I apologize, but I'm having trouble processing your request. Could you please try again?"

\* what a call of chat() gives its caller: a (content, tool_calls) pair, or
\* an exception; request tells what was posted, if anything was
NoRequest == [posted |-> FALSE, functions |-> FALSE, function_call |-> "None"]

Gives(content, tool_calls, request) ==
    [raised |-> FALSE, content |-> content, tool_calls |-> tool_calls,
     request |-> request]

Raises == [raised |-> TRUE, content |-> "None", tool_calls |-> <<>>,
           request |-> NoRequest]

\* the lower-cased content of the last user message, "" without one
last_user_message(messages) ==
    LET users == SelectSeq(messages, LAMBDA msg : msg.role = "user")
    IN  IF users = <<>> THEN <<>> ELSE lower(users[Len(users)].content)

_simulate_response(messages) ==
    LET user_message == last_user_message(messages)
        Has(word) == Contains(user_message, word)
    IN  IF Has(<<"h", "e", "l", "l", "o">>) \/ Has(<<"h", "i">>)
        THEN Gives("Hello! I'm your restaurant reservation assistant. How can I help you today?",
                   <<>>, NoRequest)
        ELSE IF Has(<<"r", "e", "s", "t", "a", "u", "r", "a", "n", "t">>) /\ Has(<<"i", "t", "a", "l", "i", "a", "n">>)
        THEN Gives("I'd be happy to help you find an Italian restaurant. What area would you like to dine in?",
                     <<ToolCall("call_search", "search_restaurants",
                                dumps([cuisine |-> <<"I", "t", "a", "l", "i", "a", "n">>, limit |-> 3]))>>,
                     NoRequest)
        ELSE IF Has(<<"r", "e", "s", "t", "a", "u", "r", "a", "n", "t">>) /\ Has(<<"s", "e", "a", "r", "c", "h">>)
        THEN Gives("I'll help you search for restaurants. Could you tell me what cuisine you're interested in?",
                   <<>>, NoRequest)
        ELSE IF Has(<<"r", "e", "s", "e", "r", "v", "a", "t", "i", "o", "n">>) \/ Has(<<"b", "o", "o", "k">>)
        THEN Gives("I'd be happy to help you make a reservation. Which restaurant would you like to book?",
                   <<>>, NoRequest)
        ELSE IF Has(<<"a", "v", "a", "i", "l", "a", "b", "l", "e">>) \/ Has(<<"t", "i", "m", "e">>)
        THEN Gives("I can check availability for you. Which restaurant and what date are you interested in?",
                   <<>>, NoRequest)
        ELSE Gives("I'm here to help you find and book restaurants. What are you looking for today?",
                   <<>>, NoRequest)

\* the first of the words that is in the text, None without one
FirstIn(text, words) ==
    IF ContainsAny(text, words)
    THEN words[CHOOSE k \in 1..Len(words) :
                   /\ Contains(text, words[k])
                   /\ \A j \in 1..(k - 1) : ~Contains(text, words[j])]
    ELSE None

\* the last of the words that is in the text, as an optional value
LastIn(text, words) ==
    IF ContainsAny(text, words)
    THEN <<capitalize(words[CHOOSE k \in 1..Len(words) :
                   /\ Contains(text, words[k])
                   /\ \A j \in (k + 1)..Len(words) : ~Contains(text, words[j])])>>
    ELSE <<>>

Scanned(raised, tool_arguments) ==
    [raised |-> raised, tool_arguments |-> tool_arguments]

RECURSIVE ScanListing(_, _)
\* the loop over reversed(messages) that looks for the last listing, at
\* message k: it stops at an assistant message with "**" in it, and the
\* "in" raises TypeError on an assistant message whose content is None.  A
\* listing of format_restaurant_list() names no "rest_<n>", and then the
\* search for the restaurant's id matches nothing: restaurant_id stays None.
ScanListing(messages, k) ==
    IF k = 0 THEN Scanned(FALSE, EmptyDict)
    ELSE IF messages[k].role = "assistant" /\ messages[k].content = None
    THEN Scanned(TRUE, EmptyDict)
    ELSE IF messages[k].role = "assistant" /\ Contains(messages[k].content, <<"*", "*">>)
    THEN Scanned(FALSE, EmptyDict)
    ELSE ScanListing(messages, k - 1)

RECURSIVE ScanCuisine(_, _)
\* the loop over reversed(messages) that takes the cuisine of the last
\* assistant message that names one, at message k; lower() raises
\* AttributeError on an assistant message whose content is None
ScanCuisine(messages, k) ==
    IF k = 0 THEN Scanned(FALSE, EmptyDict)
    ELSE IF messages[k].role = "assistant" /\ messages[k].content = None
    THEN Scanned(TRUE, EmptyDict)
    ELSE IF /\ messages[k].role = "assistant"
            /\ ContainsAny(lower(messages[k].content), <<<<"i", "n", "d", "i", "a", "n">>, <<"i", "t", "a", "l", "i", "a", "n">>, <<"c", "h", "i", "n", "e", "s", "e">>>>)
    THEN Scanned(FALSE,
                 [cuisine |-> capitalize(FirstIn(lower(messages[k].content),
                                                 <<<<"i", "n", "d", "i", "a", "n">>, <<"i", "t", "a", "l", "i", "a", "n">>, <<"c", "h", "i", "n", "e", "s", "e">>>>))])
    ELSE ScanCuisine(messages, k - 1)

\* the tool chat() will force and its arguments, or the exception of the scan
Intent(raised, force_tool, tool_arguments) ==
    [raised |-> raised, force_tool |-> force_tool,
     tool_arguments |-> tool_arguments]

AnalyzeIntent(messages) ==
    LET text == last_user_message(messages)
    IN  IF ContainsAny(text, <<<<"g", "o", " ", "w", "i", "t", "h">>, <<"c", "h", "o", "o", "s", "e">>, <<"s", "e", "l", "e", "c", "t">>>>)
        THEN IF ScanListing(messages, Len(messages)).raised
             THEN Intent(TRUE, "None", EmptyDict)
             ELSE Intent(ScanCuisine(messages, Len(messages)).raised,
                         "search_restaurants",
                         ScanCuisine(messages, Len(messages)).tool_arguments)
        ELSE IF ContainsAny(text, <<<<"f", "i", "n", "d">>, <<"s", "e", "a", "r", "c", "h">>, <<"s", "h", "o", "w">>, <<"l", "i", "s", "t">>, <<"l", "o", "o", "k", "i", "n", "g">>>>)
        THEN Intent(FALSE, "search_restaurants",
                    Dict([cuisine |-> LastIn(text, <<<<"i", "t", "a", "l", "i", "a", "n">>, <<"c", "h", "i", "n", "e", "s", "e">>, <<"i", "n", "d", "i", "a", "n">>, <<"j", "a", "p", "a", "n", "e", "s", "e">>, <<"t", "h", "a", "i">>>>),
                          location |-> LastIn(text, <<<<"d", "o", "w", "n", "t", "o", "w", "n">>, <<"u", "p", "t", "o", "w", "n">>, <<"w", "a", "t", "e", "r", "f", "r", "o", "n", "t">>>>)]))
        ELSE Intent(FALSE, "None", EmptyDict)

\* the message of a 200 answer: its content and its function_call, if any
Answer(status_code, content, function_call) ==
    [outcome |-> "answers", status_code |-> status_code, content |-> content,
     function_call |-> function_call]

PostRaises ==
    [outcome |-> "raises", status_code |-> 0, content |-> "None",
     function_call |-> <<>>]

chat(messages, tools, api_key, response) ==
    IF ~api_key THEN _simulate_response(messages)
    ELSE LET intent == AnalyzeIntent(messages)
             request == [posted |-> TRUE, functions |-> tools,
                         function_call |-> IF tools THEN intent.force_tool
                                           ELSE "None"]
         IN  IF intent.raised THEN Raises
             ELSE IF response.outcome = "raises"
             THEN [_simulate_response(messages) EXCEPT !.request = request]
             ELSE IF response.status_code = 429
             THEN Gives("I already have the information you need. Let me help you with that.",
                   <<>>, request)
             ELSE IF response.status_code # 200
             THEN IF intent.force_tool # "None"
                  THEN Gives("Let me help you with that.",
                               <<ToolCall("call_1", intent.force_tool,
                                          dumps(intent.tool_arguments))>>,
                               request)
                  ELSE Gives(ApologyReply, <<>>, request)
             ELSE IF response.function_call # <<>>
             THEN Gives(response.content,
                          <<ToolCall("call_1", response.function_call[1].name,
                                     response.function_call[1].arguments)>>,
                          request)
             ELSE Gives(response.content, <<>>, request)

\* the llm_service of a ConversationManager: an LLMService with or without
\* an API key, or any object with a chat()
LLMService(api_key) == [class |-> "LLMService", api_key |-> api_key]

AnyGateway == [class |-> "any", api_key |-> FALSE]

\* llm_service.chat(messages, tools); answer is what requests.post() does
\* with the request of an LLMService, and what the chat() of any other
\* object gives
llm_service_chat(llm_service, messages, tools, answer) ==
    IF llm_service.class = "LLMService"
    THEN chat(messages, tools, llm_service.api_key, answer)
    ELSE answer

(***************************************************************************)
(* ConversationManager.  process_message runs alone from its call to its   *)
(* return; its steps are the states of a turn: IntentResolution (the first *)
(* request), ToolExecution (one pass of the loop), ResponseGrounding (the  *)
(* second request) and done.  Between the steps result holds its local     *)
(* variables.  The results of search_restaurants and get_restaurant_details*)
(* are kept as the formatter applied to the call, the catalog being fixed; *)
(* check_availability and make_reservation are the operations above.       *)
(***************************************************************************)
\* dict.get(key) where the operations take a text, None as they write it,
\* or an optional number
get(members, key) == IF key \in DOMAIN members THEN members[key] ELSE None

get_text(members, key) == IF key \in DOMAIN members THEN members[key] ELSE <<>>

get_name(members, key) == IF key \in DOMAIN members THEN members[key] ELSE "None"

get_optional(members, key) ==
    IF key \in DOMAIN members THEN <<members[key]>> ELSE <<>>

\* a tool execution that leaves the reservation file empty
Executed_file_emptied(store, tool_result) == [store |-> <<>>, tool_result |-> tool_result]

\* what one tool execution leaves: reservations.json and the text returned
Executed(store, tool_result) == [store |-> store, tool_result |-> tool_result]

\* the exception a tool raises on arguments the model gave, "None" without
\* one: json.loads() rejects the payload; the payload is JSON but no object,
\* and has no get(); check_availability reaches strptime() with no date
ToolException(rs, tool_call) ==
    LET function_name == tool_call.function.name
        payload == tool_call.function.arguments
        arguments == payload.members
        found == get_restaurant(rs, get(arguments, "restaurant_id"))
    IN  IF payload.json = "malformed" THEN "JSONDecodeError"
        ELSE IF function_name \notin {"search_restaurants", "get_restaurant_details",
                                      "check_availability", "make_reservation"}
        THEN "None"
        ELSE IF payload.json # "object" THEN "AttributeError"
        ELSE IF /\ function_name = "check_availability"
                /\ "date" \notin DOMAIN arguments
                /\ found # <<>>
                /\ ~(/\ Truthy(get_optional(arguments, "party_size"))
                     /\ arguments.party_size > found[1].capacity)
        THEN "TypeError"
        ELSE "None"

_execute_tool(rs, store, tool_call, now, write) ==
    LET function_name == tool_call.function.name
        arguments == tool_call.function.arguments.members
    IN  IF ToolException(rs, tool_call) # "None"
        THEN Executed(store, <<"Error executing tool: ", ToolException(rs, tool_call)>>)
        ELSE IF function_name = "search_restaurants"
        THEN Executed(store, <<"format_restaurant_list",
                               <<"search_restaurants", arguments>> >>)
        ELSE IF function_name = "get_restaurant_details"
        THEN Executed(store, <<"format_restaurant_details",
                               <<"get_restaurant_details", arguments>> >>)
        ELSE IF function_name = "check_availability"
        THEN Executed(store,
                      <<"format_available_times", get(arguments, "date"),
                        check_availability(rs, store,
                                           get(arguments, "restaurant_id"),
                                           get(arguments, "date"),
                                           get_text(arguments, "time"),
                                           get_optional(arguments, "party_size"))>>)
        ELSE IF function_name = "make_reservation"
        THEN LET made == make_reservation(rs, store,
                                          get(arguments, "restaurant_id"),
                                          get(arguments, "customer_name"),
                                          get(arguments, "date"),
                                          get(arguments, "time"),
                                          get(arguments, "party_size"),
                                          get_name(arguments, "email"),
                                          get_name(arguments, "phone"),
                                          now, write)
             IN  IF made.result.ok
                 THEN Executed(made.store, <<"format_reservation_confirmation",
                                             made.result.reservation>>)
                 ELSE Executed(made.store,
                               <<"Sorry, I couldn't make the reservation: ",
                                 made.result.message>>)
        ELSE Executed(store, <<"Unknown tool: ", function_name>>)

\* execute_tool_call(tool_call, data_store) of the tools registry: the same
\* routes, and its own sentence for a name it does not know
execute_tool_call(rs, store, tool_call, now, write) ==
    LET function_name == tool_call.function.name
        arguments == tool_call.function.arguments.members
    IN  IF ToolException(rs, tool_call) # "None"
        THEN Executed(store, <<"Error executing tool: ", ToolException(rs, tool_call)>>)
        ELSE IF function_name = "search_restaurants"
        THEN Executed(store, <<"format_restaurant_list",
                               <<"search_restaurants", arguments>> >>)
        ELSE IF function_name = "get_restaurant_details"
        THEN Executed(store, <<"format_restaurant_details",
                               <<"get_restaurant_details", arguments>> >>)
        ELSE IF function_name = "check_availability"
        THEN Executed(store,
                      <<"format_available_times", get(arguments, "date"),
                        check_availability(rs, store,
                                           get(arguments, "restaurant_id"),
                                           get(arguments, "date"),
                                           get_text(arguments, "time"),
                                           get_optional(arguments, "party_size"))>>)
        ELSE IF function_name = "make_reservation"
        THEN LET made == make_reservation(rs, store,
                                          get(arguments, "restaurant_id"),
                                          get(arguments, "customer_name"),
                                          get(arguments, "date"),
                                          get(arguments, "time"),
                                          get(arguments, "party_size"),
                                          get_name(arguments, "email"),
                                          get_name(arguments, "phone"),
                                          now, write)
             IN  IF made.result.ok
                 THEN Executed(made.store, <<"format_reservation_confirmation",
                                             made.result.reservation>>)
                 ELSE Executed(made.store,
                               <<"Sorry, I couldn't make the reservation: ",
                                 made.result.message>>)
        ELSE Executed(store, <<"I don't know how to execute the tool ", function_name>>)

\* _create_system_message(user_name)
_create_system_message(user_name) ==
    Message("system", <<"You are a helpful restaurant reservation assistant", user_name>>)

\* conversation_history[:5], the five oldest messages
LastFive_oldest(conversation_history) ==
    SubSeq(conversation_history, 1,
           IF Len(conversation_history) > 5 THEN 5 ELSE Len(conversation_history))

\* conversation_history[-5:]
LastFive(conversation_history) ==
    SubSeq(conversation_history,
           IF Len(conversation_history) > 5 THEN Len(conversation_history) - 4 ELSE 1,
           Len(conversation_history))

\* what is seen of a turn from outside: each call of chat() with its
\* arguments, what the network or the object did (answer) and what chat()
\* gave (response), and each tool execution, in the order they happen
ChatEvent(messages, tools, answer, response) ==
    [event |-> "chat", messages |-> messages, tools |-> tools,
     answer |-> answer, response |-> response]

ToolEvent(tool_call, tool_result) ==
    [event |-> "tool", tool_call |-> tool_call, tool_result |-> tool_result]

\* the local variables of process_message, with what it returned once it is
\* over: outcome is "running", "returned" or "raised"
Turn(outcome, final_response, tool_calls, tool_results, messages, events) ==
    [outcome |-> outcome, final_response |-> final_response,
     tool_calls |-> tool_calls, tool_results |-> tool_results,
     messages |-> messages, events |-> events]

\* one pass of the for loop with the assistant record and the tool message
\* appended the other way round
ToolStep_result_first(turn, tool_call, tool_result) ==
    [turn EXCEPT
        !.tool_calls = Tail(@),
        !.tool_results = Append(@, tool_result),
        !.messages = @ \o << [role |-> "tool", tool_call_id |-> tool_call.id,
                              content |-> tool_result],
                             [role |-> "assistant", content |-> None,
                              tool_calls |-> <<tool_call>>] >>,
        !.events = Append(@, ToolEvent(tool_call, tool_result))]

\* one pass of the for loop once the tool has run: its result is appended
\* to tool_results, and messages gets the assistant's tool-call record and
\* then the tool message
ToolStep(turn, tool_call, tool_result) ==
    [turn EXCEPT
        !.tool_calls = Tail(@),
        !.tool_results = Append(@, tool_result),
        !.messages = @ \o << [role |-> "assistant", content |-> None,
                              tool_calls |-> <<tool_call>>],
                             [role |-> "tool", tool_call_id |-> tool_call.id,
                              content |-> tool_result] >>,
        !.events = Append(@, ToolEvent(tool_call, tool_result))]

(***************************************************************************)
(* The turns of a conversation.                                            *)
(***************************************************************************)
\* the listing of an earlier search, as format_restaurant_list() starts it
Listing == <<"1", ".", " ", "*", "*", "D", "o", "w", "n", "t", "o", "w", "n", " ", "I", "t", "a", "l", "i", "a", "n", " ", "B", "i", "s", "t", "r", "o", "*", "*", " ", "-", " ", "I", "t", "a", "l", "i", "a", "n">>

\* seven earlier messages, the users' and the assistant's in turn
LongHistory ==
    [k \in 1..7 |-> Message(IF k % 2 = 1 THEN "user" ELSE "assistant",
                            <<"t", "u", "r", "n", " ", DigitChars[k + 1]>>)]

\* the histories a caller supplies: none, the listing of an earlier search,
\* and one to seven earlier messages
Histories ==
    {<<>>, <<Message("user", ItalianRestaurant), Message("assistant", Listing)>>}
        \cup {SubSeq(LongHistory, 1, n) : n \in 1..7}

UserNames == {"Ann"}

\* the function calls a model may ask for
SearchThai == [name |-> "search_restaurants", arguments |-> dumps([cuisine |-> <<"T", "h", "a", "i">>])]

SearchItalianDowntown ==
    [name |-> "search_restaurants",
     arguments |-> dumps([cuisine |-> <<"I", "t", "a", "l", "i", "a", "n">>, location |-> <<"D", "o", "w", "n", "t", "o", "w", "n">>])]

SearchUnparsed == [name |-> "search_restaurants", arguments |-> Malformed]

CheckWednesday ==
    [name |-> "check_availability",
     arguments |-> dumps([restaurant_id |-> Catalog[1].id, date |-> Wednesday])]

BookWednesday ==
    [name |-> "make_reservation",
     arguments |-> dumps([restaurant_id |-> Catalog[1].id, customer_name |-> "Ann",
                          date |-> Wednesday, time |-> T1900, party_size |-> 1])]

DeleteEverything == [name |-> "delete_everything", arguments |-> dumps(EmptyDict)]

FunctionCalls ==
    {SearchThai, SearchItalianDowntown, SearchUnparsed, CheckWednesday,
     BookWednesday, DeleteEverything}

\* the content of a 200 answer: a text, or null
Contents == {"Here is what I found.", "None"}

\* what requests.post() may do with a request that carries the functions,
\* and with one that does not: the API emits a function call only when the
\* request carries the functions
Responses(functions) ==
    {PostRaises, Answer(429, "None", <<>>), Answer(500, "None", <<>>)}
        \cup {Answer(200, content, <<>>) : content \in Contents}
        \cup {Answer(200, content, <<function_call>>) :
                content \in Contents,
                function_call \in IF functions THEN FunctionCalls ELSE {}}

\* process_message is called: the messages of the first request.  The
\* caller's list is only read (sliced), so it is left as it was given.
StartTurn(user_message, conversation_history, user_name, llm_service) ==
    /\ pc = "idle"
    /\ pc' = "IntentResolution"
    /\ call' = [op |-> "process_message", user_message |-> user_message,
                conversation_history |-> conversation_history,
                user_name |-> user_name, llm_service |-> llm_service]
    /\ result' = Turn("running", "None", <<>>, <<>>,
                       <<_create_system_message(user_name)>>
                           \o LastFive(conversation_history)
                           \o <<Message("user", user_message)>>,
                       <<>>)
                     @@ [conversation_history |-> conversation_history]
    /\ before' = reservations
    /\ UNCHANGED <<restaurants, reservations, clock>>

\* a turn with an LLMService as llm_service
ProcessMessage ==
    \E user_message \in UserMessages, conversation_history \in Histories,
       user_name \in UserNames, api_key \in BOOLEAN :
       StartTurn(user_message, conversation_history, user_name,
                 LLMService(api_key))

\* a turn with any object that has a chat() as llm_service
ProcessMessageAnyGateway ==
    \E user_name \in UserNames : StartTurn(Hello, <<>>, user_name, AnyGateway)

RECURSIVE Numbered(_, _)
\* the tool calls call_k, call_k+1, ... of the given function calls
Numbered(function_calls, k) ==
    IF function_calls = <<>> THEN <<>>
    ELSE <<ToolCall(<<"call_", k>>, function_calls[1].name,
                    function_calls[1].arguments)>>
             \o Numbered(Tail(function_calls), k + 1)

\* the lists of at most MaxToolCalls function calls
FunctionCallLists ==
    UNION {[1..n -> FunctionCalls] : n \in 0..MaxToolCalls}

\* what the chat() of any llm_service may give: an exception, or a content
\* with a list of tool calls
GatewayGives(lists) ==
    {Raises} \cup {Gives("Here is what I found.", Numbered(list, 1), NoRequest) :
                      list \in lists}

\* what may happen to a call of chat() of the llm_service
Answers(llm_service, tools) ==
    IF llm_service.class = "LLMService" THEN Responses(tools)
    ELSE IF tools THEN GatewayGives(FunctionCallLists)
    ELSE GatewayGives({<<>>, <<SearchThai>>})

\* the first call of chat, with a second request made even when the first
\* response carries no tool call
IntentResolution_always_grounds ==
    /\ pc = "IntentResolution"
    /\ \E answer \in Answers(call.llm_service, TRUE) :
          \E response \in {llm_service_chat(call.llm_service, result.messages,
                                             TRUE, answer)} :
             LET events == <<ChatEvent(result.messages, TRUE, answer, response)>>
             IN  IF response.raised
                 THEN /\ result' = [result EXCEPT !.outcome = "raised",
                                                  !.events = events]
                      /\ pc' = "done"
                 ELSE /\ result' = [result EXCEPT
                                       !.tool_calls = response.tool_calls,
                                       !.events = events]
                      /\ pc' = IF response.tool_calls = <<>>
                               THEN "ResponseGrounding" ELSE "ToolExecution"
    /\ UNCHANGED <<restaurants, reservations, clock, call, before>>

\* the first call of chat, and the return without tool calls
IntentResolution ==
    /\ pc = "IntentResolution"
    /\ \E answer \in Answers(call.llm_service, TRUE) :
          \E response \in {llm_service_chat(call.llm_service, result.messages,
                                             TRUE, answer)} :
             LET events == <<ChatEvent(result.messages, TRUE, answer, response)>>
             IN  IF response.raised
                 THEN /\ result' = [result EXCEPT !.outcome = "raised",
                                                  !.events = events]
                      /\ pc' = "done"
                 ELSE IF response.tool_calls = <<>>
                 THEN /\ result' = [result EXCEPT
                                       !.outcome = "returned",
                                       !.final_response = response.content,
                                       !.events = events]
                      /\ pc' = "done"
                 ELSE /\ result' = [result EXCEPT
                                       !.tool_calls = response.tool_calls,
                                       !.events = events]
                      /\ pc' = "ToolExecution"
    /\ UNCHANGED <<restaurants, reservations, clock, call, before>>

\* one pass of the for loop over tool_calls
ToolExecution ==
    /\ pc = "ToolExecution"
    /\ \E write \in WriteOutcomes :
          \E run \in {_execute_tool(restaurants, reservations,
                                     Head(result.tool_calls), clock, write)} :
             /\ reservations' = run.store
             /\ result' = ToolStep(result, Head(result.tool_calls),
                                   run.tool_result)
    /\ pc' = IF Len(result.tool_calls) = 1 THEN "ResponseGrounding"
             ELSE "ToolExecution"
    /\ UNCHANGED <<restaurants, clock, call, before>>

\* the second call of chat with the tools left enabled
ResponseGrounding_with_tools ==
    /\ pc = "ResponseGrounding"
    /\ \E answer \in Answers(call.llm_service, FALSE) :
          \E response \in {llm_service_chat(call.llm_service, result.messages,
                                             TRUE, answer)} :
             LET events == Append(result.events,
                                  ChatEvent(result.messages, TRUE, answer,
                                            response))
             IN  IF response.raised
                 THEN result' = [result EXCEPT !.outcome = "raised",
                                               !.events = events]
                 ELSE result' = [result EXCEPT
                                    !.outcome = "returned",
                                    !.final_response = response.content,
                                    !.events = events]
    /\ pc' = "done"
    /\ UNCHANGED <<restaurants, reservations, clock, call, before>>

\* the second call of chat, with tools=False, and the return
ResponseGrounding ==
    /\ pc = "ResponseGrounding"
    /\ \E answer \in Answers(call.llm_service, FALSE) :
          \E response \in {llm_service_chat(call.llm_service, result.messages,
                                             FALSE, answer)} :
             LET events == Append(result.events,
                                  ChatEvent(result.messages, FALSE, answer,
                                            response))
             IN  IF response.raised
                 THEN result' = [result EXCEPT !.outcome = "raised",
                                               !.events = events]
                 ELSE result' = [result EXCEPT
                                    !.outcome = "returned",
                                    !.final_response = response.content,
                                    !.events = events]
    /\ pc' = "done"
    /\ UNCHANGED <<restaurants, reservations, clock, call, before>>

NextConversation ==
    \/ ProcessMessage
    \/ ProcessMessageAnyGateway
    \/ IntentResolution
    \/ ToolExecution
    \/ ResponseGrounding
    \/ Ack
    \/ Tick

SpecConversation == Init /\ [][NextConversation]_vars

(***************************************************************************)
(* The tools, called one at a time: the two dispatchers on any tool call,  *)
(* with bookings on file.                                                  *)
(***************************************************************************)
\* a payload that is JSON but no object: "[]"
NotAnObject == [json |-> "array", members |-> EmptyDict]

\* tool calls the turns above do not give: a tool the code does not know
\* with a payload that is no JSON, payloads that are no object, and an
\* availability check without date
DeleteUnparsed == [name |-> "delete_everything", arguments |-> Malformed]

DeleteNotAnObject == [name |-> "delete_everything", arguments |-> NotAnObject]

SearchNotAnObject == [name |-> "search_restaurants", arguments |-> NotAnObject]

CheckNoDate ==
    [name |-> "check_availability",
     arguments |-> dumps([restaurant_id |-> Catalog[1].id, party_size |-> 1])]

\* the details of the restaurant of the catalog, and of one that is not in it
DetailsOfFirst ==
    [name |-> "get_restaurant_details",
     arguments |-> dumps([restaurant_id |-> Catalog[1].id])]

DetailsOfNone ==
    [name |-> "get_restaurant_details",
     arguments |-> dumps([restaurant_id |-> "rest_404"])]

DispatchedCalls ==
    {ToolCall("call_1", function_call.name, function_call.arguments) :
        function_call \in FunctionCalls \cup {DeleteUnparsed, DeleteNotAnObject,
                                              SearchNotAnObject, CheckNoDate,
                                              DetailsOfFirst, DetailsOfNone}}

\* one call of a dispatcher: ConversationManager._execute_tool, or
\* execute_tool_call of the tools registry.  The try of both spans the whole
\* body and its handler returns a text, so a call ends with a return.
ExecuteTool ==
    /\ pc = "idle"
    /\ \E tool_call \in DispatchedCalls, write \in WriteOutcomes,
          dispatcher \in {"_execute_tool", "execute_tool_call"} :
          \E run \in {IF dispatcher = "_execute_tool"
                       THEN _execute_tool(restaurants, reservations, tool_call,
                                          clock, write)
                       ELSE execute_tool_call(restaurants, reservations,
                                              tool_call, clock, write)} :
             /\ call' = [op |-> dispatcher, tool_call |-> tool_call]
             /\ result' = [outcome |-> "returned", tool_result |-> run.tool_result]
             /\ reservations' = run.store
    /\ before' = reservations
    /\ pc' = "done"
    /\ UNCHANGED <<restaurants, clock>>

NextTools ==
    \/ ExecuteTool
    \/ MakeEveningReservation
    \/ Ack
    \/ Tick

SpecTools == Init /\ [][NextTools]_vars

(***************************************************************************)
(* The catalog tools: search_restaurants, get_restaurant_details and       *)
(* recommend_restaurants over a restaurants.json of five restaurants.  The *)
(* texts they search (id, name, cuisine, location) are sequences of        *)
(* characters; a criterion that is not given (None) is the empty text or   *)
(* the empty optional number, false like None.                             *)
(***************************************************************************)
SearchCatalog ==
    << [id |-> <<"r", "1">>, name |-> <<"R", "o", "m", "a">>,
        cuisine |-> <<"I", "t", "a", "l", "i", "a", "n">>,
        location |-> <<"D", "o", "w", "n", "t", "o", "w", "n">>,
        capacity |-> 4, price_range |-> 2, rating |-> 45, hours |-> DefaultHours],
       [id |-> <<"r", "2">>, name |-> <<"S", "a", "k", "u", "r", "a">>,
        cuisine |-> <<"J", "a", "p", "a", "n", "e", "s", "e">>,
        location |-> <<"U", "p", "t", "o", "w", "n">>,
        capacity |-> 6, price_range |-> 3, rating |-> 47, hours |-> DefaultHours],
       [id |-> <<"r", "3">>, name |-> <<"N", "a", "p", "o", "l", "i">>,
        cuisine |-> <<"I", "t", "a", "l", "i", "a", "n">>,
        location |-> <<"U", "p", "t", "o", "w", "n">>,
        capacity |-> 2, price_range |-> 1, rating |-> 40, hours |-> DefaultHours],
       [id |-> <<"r", "o", "m", "a">>, name |-> <<"T", "o", "k", "y", "o">>,
        cuisine |-> <<"J", "a", "p", "a", "n", "e", "s", "e">>,
        location |-> <<"D", "o", "w", "n", "t", "o", "w", "n">>,
        capacity |-> 8, price_range |-> 4, rating |-> 45, hours |-> DefaultHours],
       [id |-> <<"r", "5">>, name |-> <<"L", "a", " ", "R", "o", "m", "a">>,
        cuisine |-> <<"I", "t", "a", "l", "i", "a", "n">>,
        location |-> <<"D", "o", "w", "n", "t", "o", "w", "n">>,
        capacity |-> 6, price_range |-> 3, rating |-> 40, hours |-> DefaultHours] >>

\* the filters of the loop of search_restaurants: the restaurant is taken
Matches(restaurant, cuisine, location, price_range, party_size) ==
    /\ ~(cuisine # <<>> /\ ~Contains(lower(restaurant.cuisine), lower(cuisine)))
    /\ ~(location # <<>> /\ ~Contains(lower(restaurant.location), lower(location)))
    /\ ~(Truthy(price_range) /\ restaurant.price_range > price_range[1])
    /\ ~(Truthy(party_size) /\ party_size[1] > restaurant.capacity)

RECURSIVE SearchLoop(_, _, _, _, _, _, _, _)
\* the for loop of search_restaurants from restaurant k on: a restaurant
\* that passes the filters is appended, and the loop ends when results then
\* has limit elements or more
SearchLoop(rs, k, results, cuisine, location, price_range, party_size, limit) ==
    IF k > Len(rs) THEN results
    ELSE IF ~Matches(rs[k], cuisine, location, price_range, party_size)
    THEN SearchLoop(rs, k + 1, results, cuisine, location, price_range,
                    party_size, limit)
    ELSE IF Len(results) + 1 >= limit THEN Append(results, rs[k])
    ELSE SearchLoop(rs, k + 1, Append(results, rs[k]), cuisine, location,
                    price_range, party_size, limit)

search_restaurants(rs, cuisine, location, price_range, party_size, limit) ==
    SearchLoop(rs, 1, <<>>, cuisine, location, price_range, party_size, limit)

\* the criteria and limits of the searches
Cuisines == {<<>>, <<"i", "t", "a", "l", "i", "a", "n">>, <<"I", "T", "A", "L">>, <<"t", "h", "a", "i">>}

Locations == {<<>>, <<"t", "o", "w", "n">>, <<"U", "p", "t", "o", "w", "n">>}

PriceRanges == {0, 2, 3}

Parties == {0, 5}

Limits == {0, 1, 2, 5}

\* one call of search_restaurants
SearchRestaurants ==
    /\ pc = "idle"
    /\ \E cuisine \in Cuisines, location \in Locations,
          price_range \in Optional(PriceRanges), party_size \in Optional(Parties),
          limit \in Limits :
          /\ call' = [op |-> "search_restaurants", cuisine |-> cuisine,
                      location |-> location, price_range |-> price_range,
                      party_size |-> party_size, limit |-> limit]
          /\ result' = [restaurants |->
                           search_restaurants(restaurants, cuisine, location,
                                              price_range, party_size, limit)]
    /\ before' = reservations
    /\ pc' = "done"
    /\ UNCHANGED <<restaurants, reservations, clock>>

\* get_restaurant_details with the names searched before the ids
get_restaurant_details_name_first(rs, restaurant_id) ==
    LET Named(k) == Contains(lower(rs[k].name), lower(restaurant_id))
    IN  IF \E k \in 1..Len(rs) : Named(k)
        THEN <<rs[CHOOSE k \in 1..Len(rs) :
                      Named(k) /\ \A j \in 1..(k - 1) : ~Named(j)]>>
        ELSE get_restaurant(rs, restaurant_id)

\* get_restaurant_details(data_store, restaurant_id): the restaurant as an
\* optional value, <<>> for None
get_restaurant_details(rs, restaurant_id) ==
    LET Named(k) == Contains(lower(rs[k].name), lower(restaurant_id))
    IN  IF get_restaurant(rs, restaurant_id) # <<>>
        THEN get_restaurant(rs, restaurant_id)
        ELSE IF \E k \in 1..Len(rs) : Named(k)
        THEN <<rs[CHOOSE k \in 1..Len(rs) :
                      Named(k) /\ \A j \in 1..(k - 1) : ~Named(j)]>>
        ELSE <<>>

\* the ids and names asked for
IdsOrNames ==
    {<<"r", "o", "m", "a">>, <<"R", "o", "m", "a">>, <<"R", "O", "M", "A">>, <<"r", "5">>,
     <<"l", "a", " ", "r">>, <<"r">>, <<"z", "z", "z">>, <<>>}

\* one call of get_restaurant_details
GetRestaurantDetails ==
    /\ pc = "idle"
    /\ \E restaurant_id \in IdsOrNames :
          /\ call' = [op |-> "get_restaurant_details",
                      restaurant_id |-> restaurant_id]
          /\ result' = [restaurant |->
                           get_restaurant_details(restaurants, restaurant_id)]
    /\ before' = reservations
    /\ pc' = "done"
    /\ UNCHANGED <<restaurants, reservations, clock>>

\* the score with 2 for the cuisine
score_cuisine_two(restaurant, cuisine, location, price_range) ==
    (IF cuisine # <<>> /\ Contains(lower(restaurant.cuisine), lower(cuisine))
     THEN 40 ELSE 0)
    + (IF location # <<>> /\ Contains(lower(restaurant.location), lower(location))
       THEN 40 ELSE 0)
    + (IF Truthy(price_range) /\ restaurant.price_range <= price_range[1]
       THEN 20 ELSE 0)
    + restaurant.rating

\* the score of a restaurant in twentieths of a point, the rating being in
\* tenths of a star: 3 for the cuisine, 2 for the location, 1 for the
\* price range, and rating * 0.5
score(restaurant, cuisine, location, price_range) ==
    (IF cuisine # <<>> /\ Contains(lower(restaurant.cuisine), lower(cuisine))
     THEN 60 ELSE 0)
    + (IF location # <<>> /\ Contains(lower(restaurant.location), lower(location))
       THEN 40 ELSE 0)
    + (IF Truthy(price_range) /\ restaurant.price_range <= price_range[1]
       THEN 20 ELSE 0)
    + restaurant.rating

\* recommend_restaurants(data_store, preferences, limit); preferences is a
\* dictionary
recommend_restaurants(rs, preferences, limit) ==
    LET Restaurants(sorted) == [i \in 1..Len(sorted) |-> sorted[i][1]]
    IN  CHOOSE recommended \in
            {Slice(Restaurants(sort(scored_restaurants, TRUE)), limit) :
                scored_restaurants \in
                    {[i \in 1..Len(rs) |->
                        <<rs[i], score(rs[i], get_text(preferences, "cuisine"),
                                       get_text(preferences, "location"),
                                       get_optional(preferences, "price_range"))>>]}} : TRUE

\* one call of recommend_restaurants
RecommendRestaurants ==
    /\ pc = "idle"
    /\ \E cuisine \in Optional(Cuisines \ {<<>>}),
          location \in Optional(Locations \ {<<>>}),
          price_range \in Optional(PriceRanges), limit \in Limits :
          \E preferences \in {Dict([cuisine |-> cuisine, location |-> location,
                                     price_range |-> price_range])} :
             /\ call' = [op |-> "recommend_restaurants",
                         preferences |-> preferences, limit |-> limit]
             /\ result' = [restaurants |->
                              recommend_restaurants(restaurants, preferences, limit)]
    /\ before' = reservations
    /\ pc' = "done"
    /\ UNCHANGED <<restaurants, reservations, clock>>

\* restaurants.json holds the five restaurants
InitCatalog ==
    /\ restaurants = SearchCatalog
    /\ reservations = <<>>
    /\ clock = 0
    /\ pc = "idle"
    /\ call = NoCall
    /\ result = NoResult
    /\ before = <<>>

NextCatalog ==
    \/ SearchRestaurants
    \/ GetRestaurantDetails
    \/ RecommendRestaurants
    \/ Ack
    \/ Tick

SpecCatalog == InitCatalog /\ [][NextCatalog]_vars

(***************************************************************************)
(* The validators, called on their own: QueryValidator.is_vague_query on   *)
(* a text, ToolValidator.validate_search_restaurants_tool on a tool call   *)
(* and the user's text.                                                    *)
(***************************************************************************)
\* what the user types: the messages of the turns above, texts with one
\* cue each, and texts that name a cuisine, a place or a price in other words
Queries ==
    UserMessages \cup
    {<<>>,
     <<"O", "P", "T", "I", "O", "N", "S">>,
     <<"r", "e", "s", "t", "a", "u", "r", "a", "n", "t", "s", " ", "f", "o", "r", " ", "4", " ", "p", "e", "o", "p", "l", "e">>,
     <<"a", " ", "t", "a", "b", "l", "e", " ", "f", "o", "r", " ", "o", "n", "e", " ", "p", "e", "r", "s", "o", "n">>,
     <<"c", "h", "e", "a", "p", " ", "r", "e", "s", "t", "a", "u", "r", "a", "n", "t", "s">>,
     <<"r", "e", "s", "t", "a", "u", "r", "a", "n", "t", "s", " ", "$", "$">>,
     <<"T", "h", "a", "i", " ", "r", "e", "s", "t", "a", "u", "r", "a", "n", "t", "s">>,
     <<"r", "e", "s", "t", "a", "u", "r", "a", "n", "t", "s", " ", "i", "n", " ", "U", "p", "t", "o", "w", "n">>,
     <<"w", "h", "a", "t", "'", "s", " ", "a", "v", "a", "i", "l", "a", "b", "l", "e">>,
     <<"l", "o", "o", "k", "i", "n", "g", " ", "f", "o", "r", " ", "o", "p", "t", "i", "o", "n", "s">>,
     <<"s", "e", "a", "r", "c", "h", " ", "r", "e", "s", "t", "a", "u", "r", "a", "n", "t", "s">>,
     <<"r", "e", "s", "t", "a", "u", "r", "a", "n", "t", "s", " ", "b", "y", " ", "p", "r", "i", "c", "e">>,
     <<"I", " ", "w", "a", "n", "t", " ", "p", "a", "s", "t", "a">>,
     <<"c", "i", "t", "y", " ", "c", "e", "n", "t", "e", "r", " ", "p", "l", "e", "a", "s", "e">>,
     <<"p", "r", "i", "c", "e", "y", " ", "p", "l", "a", "c", "e">>,
     <<"p", "r", "i", "c", "e", "y", " ", "p", "l", "a", "c", "e", ",", " ", "$">>,
     <<"$", "$", "$">>,
     <<"$", "$", "$", "$", "$">>}

\* one call of is_vague_query
IsVagueQuery ==
    /\ pc = "idle"
    /\ \E query \in Queries :
          /\ call' = [op |-> "is_vague_query", query |-> query]
          /\ result' = [returned |-> is_vague_query(query)]
    /\ before' = reservations
    /\ pc' = "done"
    /\ UNCHANGED <<restaurants, reservations, clock>>

\* the search_restaurants calls a model can give: each of cuisine, location
\* and price_range is left out, null, or a value
SearchArguments ==
    {Dict([cuisine |-> cuisine, location |-> location, price_range |-> price_range]) :
        cuisine \in Optional({None, <<"I", "t", "a", "l", "i", "a", "n">>, <<"T", "h", "a", "i">>}),
        location \in Optional({None, <<"D", "o", "w", "n", "t", "o", "w", "n">>}),
        price_range \in Optional({0, 1, 3})}

\* the calls of the other tools, and a search whose payload is no JSON
OtherCalls ==
    {SearchUnparsed, CheckWednesday, BookWednesday, DeleteUnparsed, DetailsOfFirst}

ValidatedCalls ==
    {ToolCall("call_1", "search_restaurants", dumps(arguments)) :
        arguments \in SearchArguments}
    \cup {ToolCall("call_1", function_call.name, function_call.arguments) :
            function_call \in OtherCalls}

\* one call of validate_search_restaurants_tool
ValidateSearchRestaurantsTool ==
    /\ pc = "idle"
    /\ \E tool_call \in ValidatedCalls, user_query \in Queries :
          /\ call' = [op |-> "validate_search_restaurants_tool",
                      tool_call |-> tool_call, user_query |-> user_query]
          /\ result' = [returned |->
                            validate_search_restaurants_tool(tool_call, user_query)]
    /\ before' = reservations
    /\ pc' = "done"
    /\ UNCHANGED <<restaurants, reservations, clock>>

NextValidators ==
    \/ IsVagueQuery
    \/ ValidateSearchRestaurantsTool
    \/ Ack
    \/ Tick

SpecValidators == Init /\ [][NextValidators]_vars

(***************************************************************************)
(* Two processes, each running make_reservation once on the same data     *)
(* directory, with nothing that orders them: the steps of a call are its   *)
(* reads and writes of reservations.json, and the steps of the two calls   *)
(* interleave freely.  pc, call and result hold one entry per process.     *)
(***************************************************************************)
Procs == {1, 2}

\* lines 26-53 of make_reservation on the file as it is read now: the
\* refusal it returns, or no reservation refused and the call goes on
checks(rs, store, c) ==
    make_reservation(rs, store, c.restaurant_id, c.customer_name, c.date, c.time,
                     c.party_size, c.email, c.phone, 0, "unopened").result

\* the locals of a call: its return value, the reservation it builds, the
\* list add_reservation holds in memory, what became of its write, and
\* whether its availability check read the file before any process had
\* opened it for writing
NoLocals ==
    [ok |-> FALSE, message |-> "", reservation |-> <<>>,
     current_reservations |-> <<>>, write |-> "none",
     checked_before_writes |-> FALSE]

BookingRequest(time) ==
    [op |-> "make_reservation", restaurant_id |-> Catalog[1].id,
     customer_name |-> "Ann", date |-> Wednesday, time |-> time, party_size |-> 1,
     email |-> "None", phone |-> "None"]

\* each process has its request, for a slot the restaurant offers on the
\* day; the file is empty
InitConcurrent ==
    /\ restaurants = Catalog
    /\ reservations = <<>>
    /\ clock = 0
    /\ pc = [p \in Procs |-> "start"]
    /\ call \in [Procs -> {BookingRequest(time) : time \in {T1300, T1900}}]
    /\ result = [p \in Procs |-> NoLocals]
    /\ before = <<>>

\* the file has been opened for writing by some process
Opened ==
    \E q \in Procs : pc[q] = "opened" \/ result[q].write \in {"written", "truncated"}

\* a check that sees what the other process is about to write: it refuses
\* the slot another call has passed its check for
CheckSlot_locked(p) ==
    /\ pc[p] = "start"
    /\ \E refusal \in {checks(restaurants, reservations, call[p])} :
          IF \/ refusal.reservation = <<>>
             \/ \E q \in Procs \ {p} :
                   /\ pc[q] # "start"
                   /\ <<call[q].date, call[q].time>> = <<call[p].date, call[p].time>>
          THEN /\ pc' = [pc EXCEPT ![p] = "done"]
               /\ result' = [result EXCEPT
                     ![p].message = "The requested time slot is not available",
                     ![p].checked_before_writes = ~Opened]
          ELSE /\ pc' = [pc EXCEPT ![p] = "checked"]
               /\ result' = [result EXCEPT ![p].checked_before_writes = ~Opened]
    /\ UNCHANGED <<restaurants, reservations, clock, call, before>>

\* make_reservation up to `if time not in available_slots`
CheckSlot(p) ==
    /\ pc[p] = "start"
    /\ \E refusal \in {checks(restaurants, reservations, call[p])} :
          IF refusal.reservation = <<>>
          THEN /\ pc' = [pc EXCEPT ![p] = "done"]
               /\ result' = [result EXCEPT ![p].message = refusal.message,
                                           ![p].checked_before_writes = ~Opened]
          ELSE /\ pc' = [pc EXCEPT ![p] = "checked"]
               /\ result' = [result EXCEPT ![p].checked_before_writes = ~Opened]
    /\ UNCHANGED <<restaurants, reservations, clock, call, before>>

\* the id from datetime.now(), and the Reservation object
CreateReservation(p) ==
    /\ pc[p] = "checked"
    /\ pc' = [pc EXCEPT ![p] = "created"]
    /\ result' = [result EXCEPT ![p].reservation =
            <<Reservation(ReservationId(clock), call[p].restaurant_id,
                          call[p].customer_name, call[p].date, call[p].time,
                          call[p].party_size, call[p].email, call[p].phone, clock)>>]
    /\ UNCHANGED <<restaurants, reservations, clock, call, before>>

\* add_reservation reads every reservation of the file and puts its own in
\* the list it holds
GetAllReservations(p) ==
    /\ pc[p] = "created"
    /\ pc' = [pc EXCEPT ![p] = "loaded"]
    /\ result' = [result EXCEPT ![p].current_reservations =
            add_reservation(reservations, result[p].reservation[1], "written").store]
    /\ UNCHANGED <<restaurants, reservations, clock, call, before>>

\* open(reservation_file, 'w') : it empties the file, or it raises and the
\* call returns False with the file as it was
OpenFile(p) ==
    /\ pc[p] = "loaded"
    /\ \/ /\ pc' = [pc EXCEPT ![p] = "opened"]
          /\ reservations' = <<>>
          /\ UNCHANGED result
       \/ /\ pc' = [pc EXCEPT ![p] = "done"]
          /\ result' = [result EXCEPT ![p].write = "unopened"]
          /\ UNCHANGED reservations
    /\ UNCHANGED <<restaurants, clock, call, before>>

\* json.dump of the list : the file holds it and the call returns True, or
\* it raises, the file holds no JSON and the call returns False
JsonDump(p) ==
    /\ pc[p] = "opened"
    /\ pc' = [pc EXCEPT ![p] = "done"]
    /\ \/ /\ reservations' = result[p].current_reservations
          /\ result' = [result EXCEPT ![p].ok = TRUE, ![p].write = "written"]
       \/ /\ result' = [result EXCEPT ![p].write = "truncated"]
          /\ UNCHANGED reservations
    /\ UNCHANGED <<restaurants, clock, call, before>>

\* a second passes
Second ==
    /\ clock < MaxClock
    /\ clock' = clock + 1
    /\ UNCHANGED <<restaurants, reservations, pc, call, result, before>>

NextConcurrent ==
    \/ \E p \in Procs : CheckSlot(p)
    \/ \E p \in Procs : CreateReservation(p)
    \/ \E p \in Procs : GetAllReservations(p)
    \/ \E p \in Procs : OpenFile(p)
    \/ \E p \in Procs : JsonDump(p)
    \/ Second

SpecConcurrent == InitConcurrent /\ [][NextConcurrent]_vars

(***************************************************************************)
(* Vocabulary of the properties.                                           *)
(***************************************************************************)
Confirmed(r) == r.status = "confirmed"

\* the confirmed reservations of store on the slot (restaurant_id, date, time)
Holders(store, restaurant_id, date, time) ==
    {i \in 1..Len(store) : /\ Confirmed(store[i])
                           /\ store[i].restaurant_id = restaurant_id
                           /\ store[i].date = date
                           /\ store[i].time = time}

\* computeAvailableSlots(R, D) : no preferred time, no party size
AvailableSlots(store, restaurant_id, date) ==
    check_availability(restaurants, store, restaurant_id, date, <<>>, <<>>)

Capacity(restaurant_id) == get_restaurant(restaurants, restaurant_id)[1].capacity

\* the error of the specification that a returned message stands for
ErrorName(message) ==
    CASE message \in {"Restaurant not found", "Restaurant does not exist"}
            -> "RestaurantNotFound"
      [] message = "Party size exceeds restaurant capacity" -> "CapacityExceeded"
      [] message = "Invalid date format" -> "InvalidDate"
      [] message \in {"Invalid time", "Invalid time format"} -> "InvalidTime"
      [] message = "Invalid party size" -> "InvalidPartySize"
      [] message = "The requested time slot is not available" -> "SlotUnavailable"
      [] message = "Reservation not found" -> "ReservationNotFound"
      [] message = "Cannot modify a cancelled reservation" -> "ReservationCancelled"
      [] message = "Reservation is already cancelled" -> "AlreadyCancelled"
      [] OTHER -> "None"

MakeDone == pc = "done" /\ call.op = "make_reservation"
UpdateDone == pc = "done" /\ call.op = "update_reservation"
CancelDone == pc = "done" /\ call.op = "cancel_reservation"
CheckDone == pc = "done" /\ call.op = "check_availability"

(***************************************************************************)
(* C1                                                                      *)
(***************************************************************************)
\* C1: with one call at a time, after any sequence of make, update and cancel
\* calls no two stored reservations are both confirmed and have the same
\* restaurant_id, date and time.
C1_NoDoubleBooking ==
    \A i, j \in 1..Len(reservations) :
        (/\ i # j
         /\ Confirmed(reservations[i])
         /\ Confirmed(reservations[j])
         /\ reservations[i].restaurant_id = reservations[j].restaurant_id
         /\ reservations[i].time = reservations[j].time)
        => reservations[i].date # reservations[j].date

\* a make was refused because the slot is held, while another confirmed
\* reservation sits on the same restaurant and date at another time
C1_Witness ==
    /\ MakeDone
    /\ ErrorName(result.message) = "SlotUnavailable"
    /\ Holders(reservations, call.restaurant_id, call.date, call.time) # {}
    /\ \E i, j \in 1..Len(reservations) :
          /\ i # j
          /\ Confirmed(reservations[i]) /\ Confirmed(reservations[j])
          /\ reservations[i].date = reservations[j].date
          /\ reservations[i].time # reservations[j].time

(***************************************************************************)
(* C2                                                                      *)
(***************************************************************************)
\* C2: the id that a successful make returns differs from the id of every
\* reservation that was stored when the call started, also when one of them
\* was created in the same clock second.
C2_FreshId ==
    (MakeDone /\ result.ok)
    => \A i \in 1..Len(before) : before[i].id # result.reservation[1].id

(***************************************************************************)
(* C3                                                                      *)
(***************************************************************************)
\* C3: a stored reservation that is cancelled when a call starts is not
\* confirmed when the call has returned: once cancelled, an id never has
\* status confirmed again.
C3_CancelledStaysCancelled ==
    pc = "done"
    => \A i \in 1..Len(before), j \in 1..Len(reservations) :
          (before[i].status = "cancelled" /\ reservations[j].id = before[i].id)
          => ~Confirmed(reservations[j])

(***************************************************************************)
(* C4                                                                      *)
(***************************************************************************)
\* the first failing check of a make call, in the order of the specification
FirstFailure(store, c) ==
    IF get_restaurant(restaurants, c.restaurant_id) = <<>> THEN "RestaurantNotFound"
    ELSE IF c.party_size > Capacity(c.restaurant_id) THEN "CapacityExceeded"
    ELSE IF ~strptimeOk(c.date) THEN "InvalidDate"
    ELSE IF TimeCheck(c.time) # "ok" THEN "InvalidTime"
    ELSE IF ~(c.party_size > 0) THEN "InvalidPartySize"
    ELSE IF ~InSeq(c.time, check_availability(restaurants, store, c.restaurant_id,
                                              c.date, c.time, <<c.party_size>>))
    THEN "SlotUnavailable"
    ELSE "None"

C5_ExclusionAndRestore ==
    /\ \A i \in 1..Len(reservations) :
          Confirmed(reservations[i])
          => ~InSeq(reservations[i].time,
                    AvailableSlots(reservations, reservations[i].restaurant_id,
                                   reservations[i].date))
    /\ (CancelDone /\ result.ok)
       => LET r == get_reservation(before, call.reservation_id)[1]
          IN  (\A i \in Holders(reservations, r.restaurant_id, r.date, r.time) :
                  reservations[i].id = r.id)
              => InSeq(r.time, AvailableSlots(reservations, r.restaurant_id, r.date))

(***************************************************************************)
(* C6                                                                      *)
(***************************************************************************)
\* a make call for a slot that a confirmed reservation held when it started
MakeOnHeldSlot ==
    /\ MakeDone
    /\ Holders(before, call.restaurant_id, call.date, call.time) # {}

\* a successful booking of (R, D, T) removes T from the availability of D
BookingRemovesSlot ==
    (MakeDone /\ result.ok)
    => ~InSeq(call.time, AvailableSlots(reservations, call.restaurant_id, call.date))

\* C6 as stated: a make for (R, D, T) issued while a confirmed reservation
\* holds (R, D, T) fails with SlotUnavailable and leaves the repository
\* unchanged; a successful booking of (R, D, T) removes T from later
\* availability queries for D.
C6_Original ==
    /\ MakeOnHeldSlot
       => /\ ~result.ok
          /\ ErrorName(result.message) = "SlotUnavailable"
          /\ reservations = before
    /\ BookingRemovesSlot

\* C6 amended: a make for (R, D, T) issued while a confirmed reservation holds
\* (R, D, T) fails and leaves the repository unchanged; the failure is
\* SlotUnavailable when the party size is a positive integer within capacity,
\* CapacityExceeded when it is above capacity and InvalidPartySize when it is
\* not positive; a successful booking of (R, D, T) removes T from later
\* availability queries for D.
C6_HeldSlotRefused ==
    /\ MakeOnHeldSlot
       => /\ ~result.ok
          /\ reservations = before
          /\ ErrorName(result.message) =
                IF call.party_size > Capacity(call.restaurant_id) THEN "CapacityExceeded"
                ELSE IF call.party_size <= 0 THEN "InvalidPartySize"
                ELSE "SlotUnavailable"
    /\ BookingRemovesSlot

\* a second booking of a held slot, by a party within capacity, was refused
\* with SlotUnavailable
C6_Witness ==
    /\ MakeOnHeldSlot
    /\ call.party_size \in 1..Capacity(call.restaurant_id)
    /\ ErrorName(result.message) = "SlotUnavailable"
    /\ reservations = before

(***************************************************************************)
(* C7                                                                      *)
(***************************************************************************)
\* an update call on a reservation that was stored and confirmed when it started
UpdateOfConfirmed ==
    /\ UpdateDone
    /\ get_reservation(before, call.reservation_id) # <<>>
    /\ Confirmed(get_reservation(before, call.reservation_id)[1])

\* C7: an update of a confirmed reservation that keeps date and time and
\* changes only the party size, to another value within capacity, succeeds:
\* the reservation's own booking does not make its slot unavailable.
C7_OwnSlotIgnored ==
    (/\ UpdateOfConfirmed
     /\ DOMAIN call.updates = {"party_size"}
     /\ call.updates.party_size \in 1..Capacity(get_reservation(before, call.reservation_id)[1].restaurant_id)
     /\ call.updates.party_size # get_reservation(before, call.reservation_id)[1].party_size)
    => /\ result.ok
       /\ ErrorName(result.message) # "SlotUnavailable"

(***************************************************************************)
(* C8                                                                      *)
(***************************************************************************)
\* C8: after update(id, {time: newTime}) succeeds on a confirmed reservation
\* on (R, D, oldTime), with newTime another time than oldTime, the stored
\* reservation has time newTime, oldTime is present in
\* computeAvailableSlots(R, D) and newTime is absent from it.
C8_UpdateTimeRoundTrip ==
    (/\ UpdateOfConfirmed
     /\ DOMAIN call.updates = {"time"}
     /\ call.updates.time # get_reservation(before, call.reservation_id)[1].time
     /\ result.ok)
    => LET old == get_reservation(before, call.reservation_id)[1]
           now == get_reservation(reservations, call.reservation_id)
           slots == AvailableSlots(reservations, old.restaurant_id, old.date)
       IN  /\ now # <<>>
           /\ now[1].time = call.updates.time
           /\ InSeq(old.time, slots)
           /\ ~InSeq(call.updates.time, slots)

(***************************************************************************)
(* C9                                                                      *)
(***************************************************************************)
\* C9: every stored reservation has a party size that is positive and does
\* not exceed the capacity of its restaurant.
C9_PartySizeWithinCapacity ==
    \A i \in 1..Len(reservations) :
        /\ reservations[i].party_size >= 1
        /\ reservations[i].party_size <= Capacity(reservations[i].restaurant_id)

(***************************************************************************)
(* C10                                                                     *)
(***************************************************************************)
\* C10: after a successful make every reservation stored before the call is
\* still stored, at its place and with all its fields unchanged, and the
\* repository holds exactly one more reservation.
C10_MakeOnlyAdds ==
    (MakeDone /\ result.ok)
    => /\ Len(reservations) = Len(before) + 1
       /\ \A i \in 1..Len(before) :
             i <= Len(reservations) /\ reservations[i] = before[i]

(***************************************************************************)
(* C11                                                                     *)
(***************************************************************************)
\* C11: whatever the updates are, an update of an id that no stored
\* reservation has fails with ReservationNotFound, an update of a cancelled
\* reservation fails with ReservationCancelled, and in both cases the file
\* is as it was before the call.
C11_UpdateRefused ==
    UpdateDone
    => LET found == get_reservation(before, call.reservation_id)
       IN  /\ found = <<>>
              => /\ ~result.ok
                 /\ ErrorName(result.message) = "ReservationNotFound"
                 /\ reservations = before
           /\ (found # <<>> /\ found[1].status = "cancelled")
              => /\ ~result.ok
                 /\ ErrorName(result.message) = "ReservationCancelled"
                 /\ reservations = before

\* an update that would move a cancelled reservation to a free slot and set
\* it confirmed again was refused with ReservationCancelled
C11_Witness ==
    /\ UpdateDone
    /\ get_reservation(before, call.reservation_id) # <<>>
    /\ get_reservation(before, call.reservation_id)[1].status = "cancelled"
    /\ "status" \in DOMAIN call.updates
    /\ call.updates.status = "confirmed"
    /\ "time" \in DOMAIN call.updates
    /\ InSeq(call.updates.time,
             AvailableSlots(before,
                            get_reservation(before, call.reservation_id)[1].restaurant_id,
                            get_reservation(before, call.reservation_id)[1].date))
    /\ ErrorName(result.message) = "ReservationCancelled"
    /\ reservations = before

(***************************************************************************)
(* C12                                                                     *)
(***************************************************************************)
\* C12: cancel of an id that no stored reservation has fails with
\* ReservationNotFound and cancel of a cancelled reservation fails with
\* AlreadyCancelled, both leaving the file as it was; any other cancel
\* succeeds and leaves the file as it was except that the reservation has
\* status cancelled (so that a second cancel of the id fails).
C12_CancelContract ==
    CancelDone
    => LET found == get_reservation(before, call.reservation_id)
       IN  /\ found = <<>>
              => /\ ~result.ok
                 /\ ErrorName(result.message) = "ReservationNotFound"
                 /\ reservations = before
           /\ (found # <<>> /\ found[1].status = "cancelled")
              => /\ ~result.ok
                 /\ ErrorName(result.message) = "AlreadyCancelled"
                 /\ reservations = before
           /\ (found # <<>> /\ found[1].status # "cancelled")
              => /\ result.ok
                 /\ Len(reservations) = Len(before)
                 /\ \A i \in 1..Len(before) :
                       reservations[i] =
                           IF before[i].id = call.reservation_id
                           THEN [before[i] EXCEPT !.status = "cancelled"]
                           ELSE before[i]

(***************************************************************************)
(* C13                                                                     *)
(***************************************************************************)
\* a make call that passed every check and whose add_reservation returned
\* False: it returns (False, reservation)
MakePersistenceFailed == MakeDone /\ ~result.ok /\ result.reservation # <<>>

\* C13: when add_reservation reports failure during make, make returns a
\* failure and later queries answer as if the call had not happened:
\* get_reservation gives for every id what it gave before the call, and the
\* available slots of every date are what they were.
C13_FailedMakeLeavesNoTrace ==
    MakePersistenceFailed
    => /\ ~result.ok
       /\ \A id \in ReservationIds :
             get_reservation(reservations, id) = get_reservation(before, id)
       /\ \A date \in BookingDates :
             AvailableSlots(reservations, call.restaurant_id, date) =
                 AvailableSlots(before, call.restaurant_id, date)

(***************************************************************************)
(* C14                                                                     *)
(***************************************************************************)
\* the day class of the dates of the availability runs: 7 and 8 June 2025 are
\* a Saturday and a Sunday, 4 June 2025 is a Wednesday
DayClass(date) == IF date \in {Saturday, Sunday} THEN "weekend" ELSE "weekday"

\* slot lies in [open, close)
WithinHours(slot, hours) ==
    /\ MinutesOfDay(hours.open) <= MinutesOfDay(slot)
    /\ MinutesOfDay(slot) < MinutesOfDay(hours.close)

\* slot lies in [open, close) and is open + 30 * k minutes for some k >= 0
OnCadence(slot, hours) ==
    /\ WithinHours(slot, hours)
    /\ (MinutesOfDay(slot) - MinutesOfDay(hours.open)) % 30 = 0

\* C14: for hours with open before close and every date, every slot that
\* check_availability returns is at or after open and strictly before close
\* of the hours of the date's day class (weekend hours on Saturday and
\* Sunday, weekday hours otherwise) and is open + 30 * k minutes, k >= 0.
C14_SlotsOnCadenceWithinHours ==
    CheckDone
    => \A i \in 1..Len(result.slots) :
          OnCadence(result.slots[i], restaurants[1].hours[DayClass(call.date)])

(***************************************************************************)
(* C15                                                                     *)
(***************************************************************************)
\* the times open + 30 * k (k >= 0) strictly before close, in ascending order
CadenceSlots(hours) ==
    LET open == MinutesOfDay(hours.open)
        close == MinutesOfDay(hours.close)
        count == IF close <= open THEN 0 ELSE ((close - open - 1) \div 30) + 1
    IN  [k \in 1..count |->
            FormatSlot((open + 30 * (k - 1)) \div 60, (open + 30 * (k - 1)) % 60)]

\* a query without preferred time, for a party within capacity or for no
\* party size, on a calendar date on which the restaurant has no confirmed
\* reservation
PlainQuery ==
    /\ CheckDone
    /\ get_restaurant(restaurants, call.restaurant_id) # <<>>
    /\ strptimeOk(call.date)
    /\ call.time = <<>>
    /\ (call.party_size = <<>> \/ call.party_size[1] \in 1..Capacity(call.restaurant_id))
    /\ \A i \in 1..Len(reservations) :
          ~(/\ Confirmed(reservations[i])
            /\ reservations[i].restaurant_id = call.restaurant_id
            /\ reservations[i].date = call.date)

\* C15: with no confirmed reservation on (R, D), no preferred time and a party
\* within capacity, check_availability returns exactly the times
\* open + 30 * k (k >= 0) strictly before close, each once and in ascending
\* order; for the hours 11:00-22:00 these are the 22 slots 11:00 ... 21:30.
C15_AllSlotsOfTheDay ==
    PlainQuery
    => result.slots =
           CadenceSlots(get_restaurant(restaurants, call.restaurant_id)[1].hours[DayClass(call.date)])

(***************************************************************************)
(* Vocabulary of the properties of a turn.                                 *)
(***************************************************************************)
TurnDone == pc = "done" /\ call.op = "process_message"

\* the calls of chat() and the tool executions of the turn, in their order
ChatEvents == SelectSeq(result.events, LAMBDA e : e.event = "chat")
ToolEvents == SelectSeq(result.events, LAMBDA e : e.event = "tool")

\* the tool calls of the first gateway response
FirstToolCalls == ChatEvents[1].response.tool_calls

\* the k-th gateway request of the turn failed: chat() raised, or its
\* requests.post() raised
RequestFailed(k) ==
    \/ ChatEvents[k].response.raised
    \/ /\ call.llm_service.class = "LLMService"
       /\ ChatEvents[k].response.request.posted
       /\ ChatEvents[k].answer.outcome = "raises"

GatewayRequestFailed == \E k \in 1..Len(ChatEvents) : RequestFailed(k)

(***************************************************************************)
(* C16                                                                     *)
(***************************************************************************)
\* C16: a turn always ends by returning a reply text, and when one of its
\* gateway requests failed the reply is the one fixed sentence of the
\* degraded mode (the apology of the gateway) and no exception reaches the
\* caller.
C16_TurnEndsWithReply ==
    TurnDone =>
        /\ result.outcome = "returned"
        /\ result.final_response # "None"
        /\ GatewayRequestFailed => result.final_response = ApologyReply

(***************************************************************************)
(* C17                                                                     *)
(***************************************************************************)
\* C17: a turn whose user text is a vague query returns the clarification
\* prompt and executes no tool.
C17_VagueQueryAsksBack ==
    TurnDone /\ is_vague_query(call.user_message) =>
        /\ result.outcome = "returned"
        /\ result.final_response = ClarificationPrompt
        /\ ToolEvents = <<>>

(***************************************************************************)
(* C18                                                                     *)
(***************************************************************************)
\* C18: every tool call a turn executes, and every tool message of its
\* message list, belongs to a call that validate_search_restaurants_tool
\* accepts for the user's text.
C18_UngroundedSearchDropped ==
    TurnDone =>
        /\ \A k \in 1..Len(ToolEvents) :
              validate_search_restaurants_tool(ToolEvents[k].tool_call,
                                               call.user_message)
        /\ \A k \in 1..Len(result.messages) :
              "tool_calls" \in DOMAIN result.messages[k] =>
                  validate_search_restaurants_tool(
                      result.messages[k].tool_calls[1], call.user_message)

(***************************************************************************)
(* C19                                                                     *)
(***************************************************************************)
\* C19: when the first gateway response carries n >= 1 tool calls, the
\* turn executes exactly these calls, once each and in their order; its
\* message list is the list of the first request followed, call by call,
\* by the assistant's tool-call record and the tool message with the
\* call's id and result; and its i-th tool result is the result of the
\* i-th call.
C19_ToolCallsInOrder ==
    TurnDone /\ ~ChatEvents[1].response.raised /\ FirstToolCalls # <<>> =>
        LET n == Len(FirstToolCalls)
            asked == ChatEvents[1].messages
        IN  /\ Len(ToolEvents) = n
            /\ \A i \in 1..n : ToolEvents[i].tool_call = FirstToolCalls[i]
            /\ Len(result.tool_results) = n
            /\ \A i \in 1..n : result.tool_results[i] = ToolEvents[i].tool_result
            /\ Len(result.messages) = Len(asked) + 2 * n
            /\ SubSeq(result.messages, 1, Len(asked)) = asked
            /\ \A i \in 1..n :
                  /\ result.messages[Len(asked) + 2 * i - 1]
                        = [role |-> "assistant", content |-> None,
                           tool_calls |-> <<FirstToolCalls[i]>>]
                  /\ result.messages[Len(asked) + 2 * i]
                        = [role |-> "tool",
                           tool_call_id |-> FirstToolCalls[i].id,
                           content |-> ToolEvents[i].tool_result]

\* a turn that returned after two different tool calls with different results
C19_Witness ==
    /\ TurnDone
    /\ result.outcome = "returned"
    /\ Len(FirstToolCalls) >= 2
    /\ FirstToolCalls[1].function.name = "make_reservation"
    /\ FirstToolCalls[2].function.name = "check_availability"
    /\ Len(result.tool_results) = 2
    /\ result.tool_results[1][1] = "format_reservation_confirmation"
    /\ result.tool_results[2][1] = "format_available_times"

C21_NoToolCallsEndsTurn ==
    TurnDone /\ ~ChatEvents[1].response.raised /\ FirstToolCalls = <<>> =>
        /\ result.outcome = "returned"
        /\ Len(result.events) = 1
        /\ ToolEvents = <<>>
        /\ result.final_response = ChatEvents[1].response.content
        /\ result.tool_results = <<>>
        /\ result.messages = ChatEvents[1].messages
        /\ reservations = before

\* a turn answered at once with a text, while a reservation is on file
C21_Witness ==
    /\ TurnDone
    /\ result.outcome = "returned"
    /\ ChatEvents[1].response.tool_calls = <<>>
    /\ ChatEvents[1].answer = Answer(200, "Here is what I found.", <<>>)
    /\ result.final_response = "Here is what I found."
    /\ reservations # <<>>

(***************************************************************************)
(* C22                                                                     *)
(***************************************************************************)
\* C22: for a history of any length, the message list of the first gateway
\* request is one system message, then the last min(5, length) messages of
\* the history in their order, then the new user message: at most 7
\* messages; and the caller's history is as it was supplied.
C22_BoundedHistoryWindow ==
    TurnDone =>
        LET asked == ChatEvents[1].messages
            history == call.conversation_history
            kept == IF Len(history) > 5 THEN 5 ELSE Len(history)
        IN  /\ Len(asked) = kept + 2
            /\ Len(asked) <= 7
            /\ asked[1].role = "system"
            /\ \A i \in 1..kept :
                  asked[1 + i] = history[Len(history) - kept + i]
            /\ asked[kept + 2] = Message("user", call.user_message)
            /\ \A i \in 2..(kept + 1) : asked[i].role # "system"
            /\ result.conversation_history = history

\* a turn with seven earlier messages: the two oldest are left out
C22_Witness ==
    /\ TurnDone
    /\ call.conversation_history = LongHistory
    /\ Len(ChatEvents[1].messages) = 7
    /\ ChatEvents[1].messages[2] = LongHistory[3]
    /\ ChatEvents[1].messages[6] = LongHistory[7]
    /\ ChatEvents[1].messages[7].content = ShowMeRestaurants

(***************************************************************************)
(* C23                                                                     *)
(***************************************************************************)
DispatchDone == pc = "done" /\ call.op \in {"_execute_tool", "execute_tool_call"}

KnownTools ==
    {"search_restaurants", "get_restaurant_details", "check_availability",
     "make_reservation"}

UnknownToolMessage(dispatcher, function_name) ==
    IF dispatcher = "_execute_tool" THEN <<"Unknown tool: ", function_name>>
    ELSE <<"I don't know how to execute the tool ", function_name>>

\* C23: a dispatcher returns a text for every tool call and never raises;
\* for a tool name it does not know the text is its unknown-tool message,
\* for a payload that is no JSON it is a text that describes the error, and
\* in both cases reservations.json is as it was.
C23_DispatchReturnsText ==
    DispatchDone =>
        LET function == call.tool_call.function
        IN  /\ result.outcome = "returned"
            /\ result.tool_result # <<>>
            /\ function.name \notin KnownTools =>
                  /\ result.tool_result = UnknownToolMessage(call.op, function.name)
                  /\ reservations = before
            /\ function.arguments.json = "malformed" =>
                  /\ result.tool_result[1] \in {"Error executing tool: ",
                                                "Unknown tool: ",
                                                "I don't know how to execute the tool "}
                  /\ reservations = before

(***************************************************************************)
(* C24                                                                     *)
(***************************************************************************)
\* C24: a call of LLMService.chat with the tools disabled gives no tool
\* calls, whatever the request does: a 200 answer, another status, a post
\* that raises, and the simulated response without API key.
C24_NoToolsNoToolCalls ==
    TurnDone /\ call.llm_service.class = "LLMService" =>
        \A k \in 1..Len(ChatEvents) :
            ~ChatEvents[k].tools => ChatEvents[k].response.tool_calls = <<>>

(***************************************************************************)
(* C25                                                                     *)
(***************************************************************************)
SuggestDone == pc = "done" /\ call.op = "suggest_alternative_times"

\* the slots of check_availability for the restaurant, date and party of the
\* call, without preferred time
UnnarrowedSlots ==
    check_availability(restaurants, reservations, call.restaurant_id, call.date,
                       <<>>, <<call.party_size>>)

\* slot a is ranked before slot b for the requested time: it is nearer in
\* minutes, or as near and earlier
RankedBefore(a, b, time) ==
    LET da == Abs(MinutesOfDay(a) - MinutesOfDay(time))
        db == Abs(MinutesOfDay(b) - MinutesOfDay(time))
    IN  da < db \/ (da = db /\ MinutesOfDay(a) < MinutesOfDay(b))

\* C25: for count >= 1 and a requested time with hour and minute,
\* suggest_alternative_times returns min(count, n) of the n slots that
\* check_availability gives without preferred time: the requested time
\* first when it is one of them, then the other slots nearest first in
\* minutes from the requested time, the earlier first at equal distance;
\* no slot left out is ranked before a slot returned after the first.
C25_NearestAlternativesFirst ==
    SuggestDone /\ call.num_alternatives >= 1 /\ HourMinuteOk(call.time) =>
        \A slots \in {UnnarrowedSlots}, given \in {result.slots} :
        LET exact == InSeq(call.time, slots)
            others == IF exact THEN 2..Len(given) ELSE 1..Len(given)
        IN  /\ Len(given) = IF call.num_alternatives < Len(slots)
                             THEN call.num_alternatives ELSE Len(slots)
            /\ exact => given[1] = call.time
            /\ \A i \in 1..Len(given) : InSeq(given[i], slots)
            /\ \A i \in others : given[i] # call.time
            /\ \A i \in others, j \in others :
                  i < j => RankedBefore(given[i], given[j], call.time)
            /\ \A i \in others, k \in 1..Len(slots) :
                  ~InSeq(slots[k], given) =>
                      RankedBefore(given[i], slots[k], call.time)

\* 19:00 is free and comes first, then 18:30 and 19:30, both 30 minutes
\* away, the earlier first
C25_Witness ==
    /\ SuggestDone
    /\ call.time = T1900
    /\ call.num_alternatives = 3
    /\ result.slots = <<T1900, <<"1", "8", ":", "3", "0">>, <<"1", "9", ":", "3", "0">>>>

(***************************************************************************)
(* C26                                                                     *)
(***************************************************************************)
\* a preferred time HH:MM (or H:M) of the day
ValidTime(time) ==
    /\ HourMinuteOk(time)
    /\ Hour(time) \in 0..23
    /\ Minute(time) \in 0..59

\* C26: with a valid preferred time P, check_availability returns exactly
\* the slots of its result without preferred time whose minute of the day
\* is at most 120 from P's (120 included), in ascending order.
C26_NarrowedToTwoHours ==
    CheckDone /\ ValidTime(call.time) =>
        \A given \in {result.slots},
           slots \in {check_availability(restaurants, reservations,
                                         call.restaurant_id, call.date, <<>>,
                                         call.party_size)} :
            /\ \A i \in 1..Len(given) :
                  /\ InSeq(given[i], slots)
                  /\ Abs(MinutesOfDay(given[i]) - MinutesOfDay(call.time)) <= 120
            /\ \A k \in 1..Len(slots) :
                  Abs(MinutesOfDay(slots[k]) - MinutesOfDay(call.time)) <= 120
                      => InSeq(slots[k], given)
            /\ \A i \in 1..(Len(given) - 1) :
                  MinutesOfDay(given[i]) < MinutesOfDay(given[i + 1])

\* around 19:00 the nine slots from 17:00 to 21:00, both 120 minutes away
C26_Witness ==
    /\ CheckDone
    /\ call.time = T1900
    /\ Len(result.slots) = 9
    /\ result.slots[1] = <<"1", "7", ":", "0", "0">>
    /\ result.slots[9] = <<"2", "1", ":", "0", "0">>

(***************************************************************************)
(* C27                                                                     *)
(***************************************************************************)
\* C27: check_availability returns the empty list whenever the party is
\* larger than the capacity of the restaurant or the date is no calendar
\* date, whatever the reservations on file and the preferred time, and it
\* leaves reservations.json as it was.
C27_EmptyNotError ==
    CheckDone =>
        /\ reservations = before
        /\ \A found \in {get_restaurant(restaurants, call.restaurant_id)} :
              \/ (/\ found # <<>>
                  /\ call.party_size # <<>>
                  /\ call.party_size[1] > found[1].capacity)
              \/ ~strptimeOk(call.date)
              => result.slots = <<>>

\* a party of three for a restaurant of two, with a booking on file and a
\* preferred time
C27_Witness ==
    /\ CheckDone
    /\ call.restaurant_id = Catalog[1].id
    /\ call.party_size = <<Catalog[1].capacity + 1>>
    /\ call.date = Wednesday
    /\ call.time = T1900
    /\ reservations # <<>>
    /\ result.slots = <<>>

(***************************************************************************)
(* C28                                                                     *)
(***************************************************************************)
SearchDone == pc = "done" /\ call.op = "search_restaurants"

\* the restaurant satisfies every criterion of the search that is supplied
Satisfies(restaurant, c) ==
    /\ Contains(lower(restaurant.cuisine), lower(c.cuisine))
    /\ Contains(lower(restaurant.location), lower(c.location))
    /\ c.price_range # <<>> => restaurant.price_range <= c.price_range[1]
    /\ c.party_size # <<>> => restaurant.capacity >= c.party_size[1]

\* C28: search_restaurants returns the first min(limit, m) of the m
\* restaurants of the catalog that satisfy every supplied criterion
\* (cuisine and location as substrings without regard to case, price_range
\* at most the one supplied, capacity at least the party), in catalog
\* order: none that fails a criterion, none skipped.
C28_SearchFirstMatches ==
    SearchDone =>
        \A found \in {result.restaurants},
           matching \in {SelectSeq(restaurants,
                                    LAMBDA restaurant : Satisfies(restaurant, call))} :
            found = SubSeq(matching, 1,
                           IF call.limit < Len(matching) THEN call.limit
                           ELSE Len(matching))

(***************************************************************************)
(* C29                                                                     *)
(***************************************************************************)
RecommendDone == pc = "done" /\ call.op = "recommend_restaurants"

\* twenty times the score of the restaurant for the preferences of the call:
\* 3 when the preferred cuisine is part of its cuisine, 2 when the preferred
\* location is part of its location, 1 when its price range is at most the
\* preferred one, and half its rating (the rating is in tenths)
Points(restaurant, preferences) ==
    20 * ((IF /\ "cuisine" \in DOMAIN preferences
              /\ Contains(lower(restaurant.cuisine), lower(preferences.cuisine))
           THEN 3 ELSE 0)
          + (IF /\ "location" \in DOMAIN preferences
                /\ Contains(lower(restaurant.location), lower(preferences.location))
             THEN 2 ELSE 0)
          + (IF /\ "price_range" \in DOMAIN preferences
                /\ restaurant.price_range <= preferences.price_range
             THEN 1 ELSE 0))
    + restaurant.rating

\* restaurant i of the catalog is recommended before restaurant j
Outranks(i, j, preferences) ==
    \/ Points(restaurants[i], preferences) > Points(restaurants[j], preferences)
    \/ /\ Points(restaurants[i], preferences) = Points(restaurants[j], preferences)
       /\ i < j

\* C29: recommend_restaurants returns the first limit restaurants (all when
\* there are fewer) of the catalog in descending order of their score,
\* restaurants of equal score in catalog order.
C29_RecommendByScore ==
    RecommendDone =>
        \A given \in {result.restaurants} :
            \E place \in [1..Len(given) -> 1..Len(restaurants)] :
                /\ Len(given) = IF call.limit < Len(restaurants) THEN call.limit
                                ELSE Len(restaurants)
                /\ \A k \in 1..Len(given) : given[k] = restaurants[place[k]]
                /\ \A k \in 1..Len(given), l \in 1..Len(given) :
                      k < l => Outranks(place[k], place[l], call.preferences)
                /\ \A k \in 1..Len(given), j \in 1..Len(restaurants) :
                      (\A l \in 1..Len(given) : place[l] # j)
                          => Outranks(place[k], j, call.preferences)

\* without preferences Sakura (2.35) is first; Roma and Tokyo are level at
\* 2.25, and Roma, the earlier in the catalog, comes before Tokyo
C29_Witness ==
    /\ RecommendDone
    /\ call.preferences = EmptyDict
    /\ call.limit = 5
    /\ Len(result.restaurants) = 5
    /\ result.restaurants[1].name = <<"S", "a", "k", "u", "r", "a">>
    /\ result.restaurants[2].name = <<"R", "o", "m", "a">>
    /\ result.restaurants[3].name = <<"T", "o", "k", "y", "o">>

(***************************************************************************)
(* C30                                                                     *)
(***************************************************************************)
DetailsDone == pc = "done" /\ call.op = "get_restaurant_details"

\* the name of restaurant k of the catalog has the text in it, whatever the
\* case of the letters
NameHas(k, text) == Contains(lower(restaurants[k].name), lower(text))

\* C30: get_restaurant_details returns the restaurant whose id is the
\* argument whenever there is one, also when the name of an earlier
\* restaurant has the argument in it; only when no id is the argument, the
\* first restaurant of the catalog whose name has the argument in it,
\* whatever the case; and None when there is none.
C30_IdBeforeName ==
    DetailsDone =>
        LET ById == {k \in 1..Len(restaurants) :
                        restaurants[k].id = call.restaurant_id}
            ByName == {k \in 1..Len(restaurants) :
                          NameHas(k, call.restaurant_id)}
        IN  /\ \A k \in ById : result.restaurant = <<restaurants[k]>>
            /\ ById = {} =>
                  \A k \in ByName :
                      (\A j \in ByName : k <= j)
                          => result.restaurant = <<restaurants[k]>>
            /\ ById = {} /\ ByName = {} => result.restaurant = <<>>

\* "roma" is the id of Tokyo, the fourth restaurant, and is in the name of
\* Roma, the first
C30_Witness ==
    /\ DetailsDone
    /\ call.restaurant_id = restaurants[4].id
    /\ NameHas(1, call.restaurant_id)
    /\ result.restaurant = <<restaurants[4]>>

(***************************************************************************)
(* C31                                                                     *)
(***************************************************************************)
VagueDone == pc = "done" /\ call.op = "is_vague_query"

\* the same letter, whatever its case
SameLetter(a, b) ==
    \/ a = b
    \/ \E k \in 1..26 : {a, b} = {UpperChars[k], LowerChars[k]}

\* the token stands somewhere in the text, in any mix of cases
Occurs(text, token) ==
    \E start \in 1..(Len(text) - Len(token) + 1) :
        \A j \in 1..Len(token) : SameLetter(text[start + j - 1], token[j])

CuisineTokens ==
    {<<"i", "t", "a", "l", "i", "a", "n">>, <<"f", "r", "e", "n", "c", "h">>, <<"i", "n", "d", "i", "a", "n">>, <<"c", "h", "i", "n", "e", "s", "e">>, <<"j", "a", "p", "a", "n", "e", "s", "e">>, <<"t", "h", "a", "i">>,
     <<"m", "e", "x", "i", "c", "a", "n">>, <<"a", "m", "e", "r", "i", "c", "a", "n">>, <<"m", "e", "d", "i", "t", "e", "r", "r", "a", "n", "e", "a", "n">>}

LocationTokens ==
    {<<"d", "o", "w", "n", "t", "o", "w", "n">>, <<"u", "p", "t", "o", "w", "n">>, <<"m", "i", "d", "t", "o", "w", "n">>, <<"w", "e", "s", "t", " ", "s", "i", "d", "e">>, <<"e", "a", "s", "t", " ", "s", "i", "d", "e">>,
     <<"w", "a", "t", "e", "r", "f", "r", "o", "n", "t">>}

SearchVerbs == {<<"s", "e", "a", "r", "c", "h">>, <<"f", "i", "n", "d">>, <<"l", "o", "o", "k", "i", "n", "g", " ", "f", "o", "r">>}

PriceCues == {<<"p", "r", "i", "c", "e">>, <<"$">>}

PartySizeCues == {<<"p", "e", "o", "p", "l", "e">>, <<"p", "e", "r", "s", "o", "n">>}

GenericPhrasings ==
    {<<"s", "h", "o", "w", " ", "m", "e", " ", "o", "p", "t", "i", "o", "n", "s">>, <<"g", "i", "v", "e", " ", "m", "e", " ", "o", "p", "t", "i", "o", "n", "s">>, <<"l", "i", "s", "t", " ", "r", "e", "s", "t", "a", "u", "r", "a", "n", "t", "s">>,
     <<"w", "h", "a", "t", " ", "d", "o", " ", "y", "o", "u", " ", "h", "a", "v", "e">>, <<"w", "h", "a", "t", "'", "s", " ", "a", "v", "a", "i", "l", "a", "b", "l", "e">>, <<"s", "h", "o", "w", " ", "m", "e", " ", "r", "e", "s", "t", "a", "u", "r", "a", "n", "t", "s">>,
     <<"g", "i", "v", "e", " ", "m", "e", " ", "r", "e", "s", "t", "a", "u", "r", "a", "n", "t", "s">>, <<"r", "e", "s", "t", "a", "u", "r", "a", "n", "t", "s">>, <<"o", "p", "t", "i", "o", "n", "s">>}

ValidateDone == pc = "done" /\ call.op = "validate_search_restaurants_tool"

\* the same text, whatever the case of its letters
SameText(a, b) ==
    Len(a) = Len(b) /\ \A i \in 1..Len(a) : SameLetter(a[i], b[i])

\* (value, alias) : the other words a cuisine or a location is known by
CuisineAliases ==
    {<<<<"i", "t", "a", "l", "i", "a", "n">>, <<"p", "a", "s", "t", "a">>>>, <<<<"i", "t", "a", "l", "i", "a", "n">>, <<"p", "i", "z", "z", "a">>>>, <<<<"i", "t", "a", "l", "i", "a", "n">>, <<"i", "t", "a", "l", "i", "a", "n", " ", "f", "o", "o", "d">>>>,
     <<<<"c", "h", "i", "n", "e", "s", "e">>, <<"c", "h", "i", "n", "e", "s", "e", " ", "f", "o", "o", "d">>>>, <<<<"c", "h", "i", "n", "e", "s", "e">>, <<"a", "s", "i", "a", "n">>>>, <<<<"c", "h", "i", "n", "e", "s", "e">>, <<"d", "i", "m", " ", "s", "u", "m">>>>,
     <<<<"j", "a", "p", "a", "n", "e", "s", "e">>, <<"s", "u", "s", "h", "i">>>>, <<<<"j", "a", "p", "a", "n", "e", "s", "e">>, <<"r", "a", "m", "e", "n">>>>, <<<<"j", "a", "p", "a", "n", "e", "s", "e">>, <<"j", "a", "p", "a", "n", "e", "s", "e", " ", "f", "o", "o", "d">>>>,
     <<<<"m", "e", "x", "i", "c", "a", "n">>, <<"t", "a", "c", "o", "s">>>>, <<<<"m", "e", "x", "i", "c", "a", "n">>, <<"m", "e", "x", "i", "c", "a", "n", " ", "f", "o", "o", "d">>>>, <<<<"m", "e", "x", "i", "c", "a", "n">>, <<"b", "u", "r", "r", "i", "t", "o", "s">>>>,
     <<<<"i", "n", "d", "i", "a", "n">>, <<"c", "u", "r", "r", "y">>>>, <<<<"i", "n", "d", "i", "a", "n">>, <<"i", "n", "d", "i", "a", "n", " ", "f", "o", "o", "d">>>>, <<<<"i", "n", "d", "i", "a", "n">>, <<"t", "i", "k", "k", "a">>>>,
     <<<<"t", "h", "a", "i">>, <<"t", "h", "a", "i", " ", "f", "o", "o", "d">>>>, <<<<"t", "h", "a", "i">>, <<"p", "a", "d", " ", "t", "h", "a", "i">>>>,
     <<<<"a", "m", "e", "r", "i", "c", "a", "n">>, <<"b", "u", "r", "g", "e", "r">>>>, <<<<"a", "m", "e", "r", "i", "c", "a", "n">>, <<"a", "m", "e", "r", "i", "c", "a", "n", " ", "f", "o", "o", "d">>>>, <<<<"a", "m", "e", "r", "i", "c", "a", "n">>, <<"s", "t", "e", "a", "k">>>>,
     <<<<"f", "r", "e", "n", "c", "h">>, <<"f", "r", "e", "n", "c", "h", " ", "f", "o", "o", "d">>>>, <<<<"f", "r", "e", "n", "c", "h">>, <<"b", "i", "s", "t", "r", "o">>>>}

LocationAliases ==
    {<<<<"d", "o", "w", "n", "t", "o", "w", "n">>, <<"c", "i", "t", "y", " ", "c", "e", "n", "t", "e", "r">>>>, <<<<"d", "o", "w", "n", "t", "o", "w", "n">>, <<"c", "e", "n", "t", "r", "a", "l">>>>,
     <<<<"u", "p", "t", "o", "w", "n">>, <<"u", "p", "p", "e", "r">>>>, <<<<"u", "p", "t", "o", "w", "n">>, <<"n", "o", "r", "t", "h">>>>,
     <<<<"m", "i", "d", "t", "o", "w", "n">>, <<"m", "i", "d", "d", "l", "e">>>>, <<<<"m", "i", "d", "t", "o", "w", "n">>, <<"c", "e", "n", "t", "e", "r">>>>,
     <<<<"w", "e", "s", "t", " ", "s", "i", "d", "e">>, <<"w", "e", "s", "t", "e", "r", "n">>>>, <<<<"w", "e", "s", "t", " ", "s", "i", "d", "e">>, <<"w", "e", "s", "t">>>>,
     <<<<"e", "a", "s", "t", " ", "s", "i", "d", "e">>, <<"e", "a", "s", "t", "e", "r", "n">>>>, <<<<"e", "a", "s", "t", " ", "s", "i", "d", "e">>, <<"e", "a", "s", "t">>>>,
     <<<<"w", "a", "t", "e", "r", "f", "r", "o", "n", "t">>, <<"b", "y", " ", "t", "h", "e", " ", "w", "a", "t", "e", "r">>>>, <<<<"w", "a", "t", "e", "r", "f", "r", "o", "n", "t">>, <<"n", "e", "a", "r", " ", "w", "a", "t", "e", "r">>>>,
     <<<<"w", "a", "t", "e", "r", "f", "r", "o", "n", "t">>, <<"r", "i", "v", "e", "r", "s", "i", "d", "e">>>>, <<<<"w", "a", "t", "e", "r", "f", "r", "o", "n", "t">>, <<"l", "a", "k", "e", "s", "i", "d", "e">>>>}

\* (tier, word) : the words of a price tier
TierWords ==
    {<<1, <<"c", "h", "e", "a", "p">>>>, <<1, <<"i", "n", "e", "x", "p", "e", "n", "s", "i", "v", "e">>>>, <<1, <<"b", "u", "d", "g", "e", "t">>>>, <<1, <<"a", "f", "f", "o", "r", "d", "a", "b", "l", "e">>>>,
     <<2, <<"m", "o", "d", "e", "r", "a", "t", "e">>>>, <<2, <<"m", "i", "d", "-", "r", "a", "n", "g", "e">>>>, <<2, <<"r", "e", "a", "s", "o", "n", "a", "b", "l", "e">>>>,
     <<3, <<"e", "x", "p", "e", "n", "s", "i", "v", "e">>>>, <<3, <<"h", "i", "g", "h", "-", "e", "n", "d">>>>, <<3, <<"p", "r", "i", "c", "e", "y">>>>,
     <<4, <<"v", "e", "r", "y", " ", "e", "x", "p", "e", "n", "s", "i", "v", "e">>>>, <<4, <<"l", "u", "x", "u", "r", "y">>>>, <<4, <<"t", "o", "p", "-", "e", "n", "d">>>>, <<4, <<"f", "i", "n", "e", "s", "t">>>>}

\* words that speak of price without naming a tier
PriceWords == {<<"p", "r", "i", "c", "e">>, <<"c", "o", "s", "t">>, <<"e", "x", "p", "e", "n", "s", "i", "v", "e">>, <<"c", "h", "e", "a", "p">>, <<"a", "f", "f", "o", "r", "d", "a", "b", "l", "e">>, <<"b", "u", "d", "g", "e", "t">>}

\* the value, or an alias of it, stands in the text
NamedIn(text, value, aliases) ==
    \/ Occurs(text, value)
    \/ \E pair \in aliases : SameText(pair[1], value) /\ Occurs(text, pair[2])

\* a price word of the tier or of price in general stands in the text, or
\* the text holds '$' signs, at least as many as the tier
PricedIn(text, price_range) ==
    \/ \E pair \in TierWords : pair[1] = price_range /\ Occurs(text, pair[2])
    \/ \E word \in PriceWords : Occurs(text, word)
    \/ /\ Occurs(text, <<"$">>)
       /\ Cardinality({i \in 1..Len(text) : text[i] = "$"}) >= price_range

\* the argument has its grounding in the text
Grounded(text, param, value) ==
    CASE param = "cuisine" -> NamedIn(text, value, CuisineAliases)
      [] param = "location" -> NamedIn(text, value, LocationAliases)
      [] param = "price_range" -> PricedIn(text, value)

\* the argument is null; the price ranges of the calls are numbers
IsNull(param, value) == param # "price_range" /\ value = None

\* C32: for a search_restaurants call validate_search_restaurants_tool
\* returns true exactly when every cuisine, location and price_range
\* argument that is not null has its grounding in the user's text; for a
\* call of another tool it returns true.
C32_UngroundedArgumentInvalid ==
    ValidateDone =>
        \A function \in {call.tool_call.function} :
            /\ function.name # "search_restaurants" => result.returned
            /\ function.name = "search_restaurants" /\ function.arguments.json = "object" =>
                  result.returned =
                      \A param \in DOMAIN function.arguments.members
                                   \cap {"cuisine", "location", "price_range"} :
                          ~IsNull(param, function.arguments.members[param]) =>
                              Grounded(call.user_query, param,
                                       function.arguments.members[param])

(***************************************************************************)
(* C33                                                                     *)
(***************************************************************************)
AllReturned == \A p \in Procs : pc[p] = "done"

SameSlotRequested ==
    \A p, q \in Procs :
        <<call[p].restaurant_id, call[p].date, call[p].time>>
            = <<call[q].restaurant_id, call[q].date, call[q].time>>

\* the confirmed reservations of the file on the slot process p asks for
OnSlotOf(p) ==
    {i \in 1..Len(reservations) :
        /\ reservations[i].status = "confirmed"
        /\ reservations[i].restaurant_id = call[p].restaurant_id
        /\ reservations[i].date = call[p].date
        /\ reservations[i].time = call[p].time}

\* C33: when two processes ask for the same slot and the availability
\* check of each reads the file before any write of it, neither call is
\* refused: each passes its check and goes on to its write, and returns
\* True when that write succeeds.
C33_BothPassTheCheck ==
    SameSlotRequested =>
        \A p \in Procs :
            result[p].checked_before_writes =>
                /\ pc[p] # "start"
                /\ result[p].message # "The requested time slot is not available"
                /\ pc[p] = "done" =>
                      /\ result[p].write \in WriteOutcomes
                      /\ result[p].ok = (result[p].write = "written")

\* both calls have returned True and the file holds two confirmed
\* reservations on the one slot
C33_Witness ==
    /\ SameSlotRequested
    /\ AllReturned
    /\ \A p \in Procs : result[p].checked_before_writes /\ result[p].ok
    /\ Cardinality(OnSlotOf(1)) = 2

(***************************************************************************)
(* C34                                                                     *)
(***************************************************************************)
\* C34: when two processes ask for different slots and both calls have
\* returned, the reservation of every call that returned True is in the
\* file.
C34_NoLostReservation ==
    AllReturned /\ ~SameSlotRequested =>
        \A p \in Procs :
            result[p].ok =>
                \E i \in 1..Len(reservations) :
                    reservations[i] = result[p].reservation[1]

(***************************************************************************)
(* C35                                                                     *)
(***************************************************************************)
\* C35: suggest_alternative_times returns at most num_alternatives slots,
\* for every count from 0 on and every requested time, available or not.
C35_AtMostCount ==
    SuggestDone => Len(result.slots) <= call.num_alternatives

(***************************************************************************)
(* C36                                                                     *)
(***************************************************************************)
\* C36: after an update_reservation that returns True the file holds the
\* reservations it held before, in their places; the targeted one has the
\* supplied value in every field the updates name and its old value in
\* every other field, and all others are as they were.
C36_ExactlySuppliedFields ==
    UpdateDone /\ result.ok =>
        /\ Len(reservations) = Len(before)
        /\ \A i \in 1..Len(before) :
              IF before[i].id = call.reservation_id
              THEN \A field \in DOMAIN before[i] :
                      reservations[i][field] =
                          IF field \in DOMAIN call.updates
                          THEN call.updates[field] ELSE before[i][field]
              ELSE reservations[i] = before[i]

(***************************************************************************)
(* C39                                                                     *)
(***************************************************************************)
\* C39: an update_reservation or cancel_reservation that returns True has
\* its change in the file, the updated reservation as returned or the
\* reservation with status cancelled; one that returns False leaves the
\* file as it was.
C39_SuccessOnlyWhenPersisted ==
    /\ UpdateDone /\ result.ok =>
          \E i \in 1..Len(reservations) : reservations[i] = result.reservation[1]
    /\ CancelDone /\ result.ok =>
          \E i \in 1..Len(reservations) :
              /\ reservations[i].id = call.reservation_id
              /\ reservations[i].status = "cancelled"
    /\ (UpdateDone \/ CancelDone) /\ ~result.ok => reservations = before

(***************************************************************************)
(* C37                                                                     *)
(***************************************************************************)
\* C37: a dispatch of search_restaurants, get_restaurant_details or
\* check_availability, whatever its arguments, leaves reservations.json as
\* it was, and after a dispatch of any tool, make_reservation included,
\* restaurants.json is the catalog it was.
C37_OnlyBookingWrites ==
    DispatchDone =>
        /\ call.tool_call.function.name
              \in {"search_restaurants", "get_restaurant_details", "check_availability"}
              => reservations = before
        /\ restaurants = Catalog

\* an availability check has been dispatched with a booking on file, and
\* has given the free times of the day
C37_Witness ==
    /\ DispatchDone
    /\ call.tool_call.function.name = "check_availability"
    /\ before # <<>>
    /\ result.tool_result[1] = "format_available_times"
    /\ reservations = before

(***************************************************************************)
(* C38                                                                     *)
(***************************************************************************)
\* HH:MM with two digits each
ZeroPadded(time) ==
    /\ Len(time) = 5
    /\ time[3] = ":"
    /\ \A i \in {1, 2, 4, 5} : IsDigit(time[i])

\* the slots the loop of check_availability generates for the hours of each
\* restaurant of the catalog, by day class
GeneratedSlots ==
    [k \in 1..Len(Catalog) |->
        [day_type \in {"weekday", "weekend"} |->
            SlotLoop(Hour(Catalog[k].hours[day_type].open),
                     Minute(Catalog[k].hours[day_type].open),
                     Hour(Catalog[k].hours[day_type].close),
                     Minute(Catalog[k].hours[day_type].close), <<>>)]]

\* C38: in every state the time of every confirmed reservation of the file
\* is zero-padded HH:MM, at or after open and strictly before close of the
\* hours its restaurant has on the day class of its date, and one of the
\* slots generated for these hours.
C38_ConfirmedOnGeneratedSlot ==
    \A i \in 1..Len(reservations) :
        Confirmed(reservations[i]) =>
            \E k \in 1..Len(Catalog) :
                /\ restaurants[k].id = reservations[i].restaurant_id
                /\ strptimeOk(reservations[i].date)
                /\ \E day_type \in {IF weekday(reservations[i].date) >= 5
                                     THEN "weekend" ELSE "weekday"} :
                      /\ ZeroPadded(reservations[i].time)
                      /\ WithinHours(reservations[i].time, restaurants[k].hours[day_type])
                      /\ InSeq(reservations[i].time, GeneratedSlots[k][day_type])

\* an update that names the date alone has moved a confirmed reservation to
\* a day of the other day class
C38_Witness ==
    /\ UpdateDone
    /\ result.ok
    /\ DOMAIN call.updates = {"date"}
    /\ \E i \in 1..Len(reservations) :
          /\ reservations[i].id = call.reservation_id
          /\ Confirmed(reservations[i])
          /\ reservations[i].date = call.updates.date
          /\ before[i].date # call.updates.date
          /\ DayClass(before[i].date) # DayClass(call.updates.date)
====
